---- MODULE Spec2Model ----
(***************************************************************************)
(* AutoVedio: the resumable item pipeline of main.py and the three         *)
(* per-item generation stages it drives (generate_image_prompts,           *)
(* generate_images_batch, generate_audio_for_items).                       *)
(*                                                                         *)
(* Encoding of Python values.  An item is a dict: a function from a set of *)
(* key names to values.  Every value is a natural number: 0 stands for the *)
(* empty string (falsy), a positive number for a non-empty text or path.   *)
(* A generated Prompt carries the number of the run that produced it, a    *)
(* generated Image or audio path carries i+1 of image_{i+1}.jpg or         *)
(* audio_{i+1}.mp3, and OldValue marks a value that was already there.     *)
(***************************************************************************)
EXTENDS Integers, Sequences, FiniteSets, TLC

VARIABLES
    pc,          \* position of the running code
    items,       \* the in-memory item list of the running code
    idx,         \* 1-based position of a stage's for-loop (enumerate index i + 1)
    store,       \* the persisted item file temp/<name>/<name>.json
    calls,       \* external calls made so far by the current run or stage call
    warnings,    \* "[警告]" lines printed so far, in order
    entry,       \* the item list as it was when the current stage was called
    exc,         \* the exception that left the stage or the run, "none" if none
    args,        \* the arguments the current stage call was made with
    runs,        \* number of main.py runs started on the project directory
    numSegments, \* config['images'] of the run-input file
    inp,         \* what a directly called function reads: its arguments, the files on disk
    out          \* what a directly called function has returned or built so far

vars == <<pc, items, idx, store, calls, warnings, entry, exc, args, runs, numSegments, inp, out>>

-----------------------------------------------------------------------------
(* Bounds of the model *)

MaxItems == 2
MaxSegments == 2
MaxRuns == 3
MaxReply == 3

OldValue == 9

-----------------------------------------------------------------------------
(* Python dict helpers *)

EmptyDict == [k \in {} |-> 0]

\* item.get(k), item.get(k, ''): the value, or a falsy default
Get(item, k) == IF k \in DOMAIN item THEN item[k] ELSE 0

\* item[k] = v
Put(item, k, v) == [f \in (DOMAIN item) \cup {k} |-> IF f = k THEN v ELSE item[f]]

\* Python truthiness of a string value
Truthy(v) == v # 0

\* A JSON array element that is not an object (a string, a number): it has no .get
NonObject == [json_scalar |-> 1]

IsDict(x) == "json_scalar" \notin DOMAIN x

\* The value of a variable the running code does not use
NoValue == <<>>

SeqUpTo(S, n) == UNION {[1..k -> S] : k \in 0..n}

Call(kind, i, ok) == [kind |-> kind, item |-> i, ok |-> ok]

Warning(stage, i) == [stage |-> stage, item |-> i]

\* The arguments of a stage call: the function called, whether text is given,
\* the names of the keyword arguments, and the type of the template argument
NoArgs == [fn |-> "none", text |-> FALSE, kwargs |-> {}, template |-> "dict"]

-----------------------------------------------------------------------------
(* PromptGenerator.generate_image_prompts *)

\* The text of a reply received in the current run: differs from run to run
FreshText == runs + 1

\* if item.get('Prompt'): continue
PromptSkip(item) == Truthy(Get(item, "Prompt"))

PromptPrereqMissing_Or(item) ==
    ~Truthy(Get(item, "title")) \/ ~Truthy(Get(item, "subtitle"))

\* if not title and not subtitle: warn, continue
PromptPrereqMissing(item) ==
    ~Truthy(Get(item, "title")) /\ ~Truthy(Get(item, "subtitle"))

\* The statements of one pass of the for-loop, for the item at idx
PromptItemStep(ok) ==
    LET item == items[idx] IN
    IF ~IsDict(item)
    THEN /\ pc' = "raised"
         /\ exc' = "AttributeError"
         /\ UNCHANGED <<items, idx, calls, warnings>>
    ELSE /\ idx' = idx + 1
         /\ UNCHANGED <<pc, exc>>
         /\ IF PromptSkip(item)
            THEN UNCHANGED <<items, calls, warnings>>
            ELSE IF PromptPrereqMissing(item)
            THEN /\ warnings' = Append(warnings, Warning("prompts", idx))
                 /\ UNCHANGED <<items, calls>>
            ELSE /\ calls' = calls \cup {Call("prompt", idx, ok)}
                 /\ items' = IF ok
                             THEN [items EXCEPT ![idx] = Put(item, "Prompt", FreshText)]
                             ELSE items
                 /\ UNCHANGED warnings

\* Entry of the function: the unified style prompt is requested when text is given
\* (generate_unified_style_prompt catches a failed call and returns a default)
PromptsCall ==
    /\ pc = "prompts_call"
    /\ \E ok \in BOOLEAN :
         calls' = IF args.text THEN calls \cup {Call("style", 0, ok)} ELSE calls
    /\ entry' = items
    /\ idx' = 1
    /\ pc' = "prompts"
    /\ UNCHANGED <<items, store, warnings, exc, args, runs, numSegments, inp, out>>

PromptItem ==
    /\ pc = "prompts"
    /\ idx <= Len(items)
    /\ \E ok \in BOOLEAN : PromptItemStep(ok)
    /\ UNCHANGED <<store, entry, args, runs, numSegments, inp, out>>

PromptsReturn ==
    /\ pc = "prompts"
    /\ idx > Len(items)
    /\ pc' = "prompts_return"
    /\ UNCHANGED <<items, idx, store, calls, warnings, entry, exc, args, runs, numSegments, inp, out>>

-----------------------------------------------------------------------------
(* ImageGenerator.generate_images_batch and generate_image *)

\* def generate_images_batch(self, items, output_dir, template=None)
GenerateImagesBatchKeywords == {"items", "output_dir", "template"}

\* Python binds a call only if every keyword argument names a parameter
CallBinds(kwargs, keywords) == kwargs \subseteq keywords

ImageSkip_WrongKey(item) == Truthy(Get(item, "image"))

\* if item.get('Image'): continue
ImageSkip(item) == Truthy(Get(item, "Image"))

\* if not prompt: warn, continue
ImagePrereqMissing(item) == ~Truthy(Get(item, "Prompt"))

\* os.path.join(output_dir, f"image_{i+1}.jpg"), i the 0-based enumerate index
ImagePath(i) == i

generate_image_PathOnFailure(ok, output_path) == output_path

\* generate_image: the saved path, or None when the request or the download raised
generate_image(ok, output_path) == IF ok THEN output_path ELSE 0

ImageItemStep(ok) ==
    LET item == items[idx] IN
    IF ~IsDict(item)
    THEN /\ pc' = "raised"
         /\ exc' = "AttributeError"
         /\ UNCHANGED <<items, idx, calls, warnings>>
    ELSE /\ idx' = idx + 1
         /\ UNCHANGED <<pc, exc>>
         /\ IF ImageSkip(item)
            THEN UNCHANGED <<items, calls, warnings>>
            ELSE IF ImagePrereqMissing(item)
            THEN /\ warnings' = Append(warnings, Warning("images", idx))
                 /\ UNCHANGED <<items, calls>>
            ELSE /\ calls' = calls \cup {Call("image", idx, ok)}
                 /\ LET result == generate_image(ok, ImagePath(idx)) IN
                    items' = IF Truthy(result)
                             THEN [items EXCEPT ![idx] = Put(item, "Image", result)]
                             ELSE items
                 /\ UNCHANGED warnings

ImagesCall ==
    /\ pc = "images_call"
    /\ entry' = items
    /\ idx' = 1
    /\ IF CallBinds(args.kwargs, GenerateImagesBatchKeywords)
       THEN pc' = "images" /\ exc' = exc
       ELSE pc' = "raised" /\ exc' = "TypeError"
    /\ UNCHANGED <<items, store, calls, warnings, args, runs, numSegments, inp, out>>

ImageItem ==
    /\ pc = "images"
    /\ idx <= Len(items)
    /\ \E ok \in BOOLEAN : ImageItemStep(ok)
    /\ UNCHANGED <<store, entry, args, runs, numSegments, inp, out>>

ImagesReturn ==
    /\ pc = "images"
    /\ idx > Len(items)
    /\ pc' = "images_return"
    /\ UNCHANGED <<items, idx, store, calls, warnings, entry, exc, args, runs, numSegments, inp, out>>

-----------------------------------------------------------------------------
(* generate_audio_for_items and text_to_speech *)

\* if item.get('audio'): continue
AudioSkip(item) == Truthy(Get(item, "audio"))

\* text_top = item.get('TextTop', '') or ''
TextTopOf(item) == Get(item, "TextTop")

\* text_bottom = item.get('TextBottom', '') or ''
TextBottomOf(item) == Get(item, "TextBottom")

\* if not text_top and not text_bottom: warn, continue
AudioPrereqMissing(item) ==
    ~Truthy(TextTopOf(item)) /\ ~Truthy(TextBottomOf(item))

\* os.path.join(audio_dir, f"audio_{i+1}.mp3")
AudioPath(i) == i

AudioCallKinds_TopOnly(item) == <<"tts_top">>

\* How far the try block of one item gets: the number of its external calls that
\* succeed before one raises (text_to_speech raises on a cancelled synthesis,
\* merge_audio_files re-raises)
AudioCallKinds(item) ==
    IF Truthy(TextTopOf(item)) /\ Truthy(TextBottomOf(item))
    THEN <<"tts_top", "tts_bottom", "merge">>
    ELSE IF Truthy(TextTopOf(item)) THEN <<"tts_top">> ELSE <<"tts_bottom">>

AudioItemStep(succeeded) ==
    LET item  == items[idx]
        kinds == AudioCallKinds(item)
        made  == IF succeeded < Len(kinds) THEN succeeded + 1 ELSE Len(kinds)
    IN
    IF ~IsDict(item)
    THEN /\ pc' = "raised"
         /\ exc' = "AttributeError"
         /\ UNCHANGED <<items, idx, calls, warnings>>
    ELSE /\ idx' = idx + 1
         /\ UNCHANGED <<pc, exc>>
         /\ IF AudioSkip(item)
            THEN UNCHANGED <<items, calls, warnings>>
            ELSE IF AudioPrereqMissing(item)
            THEN /\ warnings' = Append(warnings, Warning("audio", idx))
                 /\ UNCHANGED <<items, calls>>
            ELSE /\ calls' = calls \cup
                        {Call(kinds[k], idx, k <= succeeded) : k \in 1..made}
                 /\ items' = IF succeeded >= Len(kinds)
                             THEN [items EXCEPT ![idx] = Put(item, "audio", AudioPath(idx))]
                             ELSE items
                 /\ UNCHANGED warnings

\* voice_top = template.get(...): a str template has no .get
AudioCall ==
    /\ pc = "audio_call"
    /\ entry' = items
    /\ idx' = 1
    /\ IF args.template = "dict"
       THEN pc' = "audio" /\ exc' = exc
       ELSE pc' = "raised" /\ exc' = "AttributeError"
    /\ UNCHANGED <<items, store, calls, warnings, args, runs, numSegments, inp, out>>

AudioItem ==
    /\ pc = "audio"
    /\ idx <= Len(items)
    /\ \E succeeded \in 0..3 : AudioItemStep(succeeded)
    /\ UNCHANGED <<store, entry, args, runs, numSegments, inp, out>>

AudioReturn ==
    /\ pc = "audio"
    /\ idx > Len(items)
    /\ pc' = "audio_return"
    /\ UNCHANGED <<items, idx, store, calls, warnings, entry, exc, args, runs, numSegments, inp, out>>

-----------------------------------------------------------------------------
(* The stage functions called directly on an item list (as a caller such as  *)
(* app.py or a test does): the items and the arguments are drawn from pools. *)

Absent == EmptyDict

ItemsOf(captions, prompts, images, audios) ==
    {c @@ p @@ i @@ a : c \in captions, p \in prompts, i \in images, a \in audios}

TitleSubtitle == [title |-> 1, subtitle |-> 1]

PromptPool ==
    ItemsOf({Absent, [title |-> 1], TitleSubtitle, [TextTop |-> 1, TextBottom |-> 1]},
            {Absent, [Prompt |-> 0], [Prompt |-> OldValue]},
            {Absent, [Image |-> OldValue]},
            {Absent})
    \cup {NonObject}

ImagePool ==
    ItemsOf({TitleSubtitle},
            {Absent, [Prompt |-> 0], [Prompt |-> OldValue]},
            {Absent, [Image |-> 0], [Image |-> OldValue]},
            {Absent, [audio |-> OldValue]})
    \cup {NonObject}

AudioPool ==
    ItemsOf({Absent, TitleSubtitle, [TextTop |-> 1, TextBottom |-> 1],
             [TextTop |-> 1], [TextTop |-> 0, TextBottom |-> 1]},
            {Absent},
            {Absent, [Image |-> OldValue]},
            {Absent, [audio |-> 0], [audio |-> OldValue]})
    \cup {NonObject}

StageInit ==
    /\ \/ /\ pc = "prompts_call"
          /\ items \in SeqUpTo(PromptPool, MaxItems)
          /\ args \in {[NoArgs EXCEPT !.fn = "generate_image_prompts", !.text = t] :
                         t \in BOOLEAN}
       \/ /\ pc = "images_call"
          /\ items \in SeqUpTo(ImagePool, MaxItems)
          /\ args \in {[NoArgs EXCEPT !.fn = "generate_images_batch", !.kwargs = k] :
                         k \in {{}, {"template"}, {"image_size"}}}
       \/ /\ pc = "audio_call"
          /\ items \in SeqUpTo(AudioPool, MaxItems)
          /\ args \in {[NoArgs EXCEPT !.fn = "generate_audio_for_items", !.template = t] :
                         t \in {"dict", "str"}}
    /\ idx = 1
    /\ store = [exists |-> FALSE, data |-> <<>>]
    /\ calls = {}
    /\ warnings = <<>>
    /\ entry = items
    /\ exc = "none"
    /\ runs = 0
    /\ numSegments = 1
    /\ inp = NoValue
    /\ out = NoValue

StageNext ==
    \/ PromptsCall
    \/ PromptItem
    \/ PromptsReturn
    \/ ImagesCall
    \/ ImageItem
    \/ ImagesReturn
    \/ AudioCall
    \/ AudioItem
    \/ AudioReturn

StageSpec == StageInit /\ [][StageNext]_vars

-----------------------------------------------------------------------------
(* PromptGenerator.generate_video_script *)

\* DEFAULT_COVER of prompt_templates
DEFAULT_COVER == [title |-> 1, subtitle |-> 1]

\* A reply of the text-generation service: ok is FALSE when the call raised or
\* the text is not JSON; otherwise value is the parsed JSON value, isList telling
\* an array (value its elements) from anything else
Reply(ok, isList, value) == [ok |-> ok, isList |-> isList, value |-> value]

\* The values json.loads can return for one segment
ReplyElements == {[title |-> FreshText, subtitle |-> FreshText],
                  [title |-> FreshText],
                  NonObject}

CoverReplies ==
    {Reply(FALSE, FALSE, NonObject)}
    \cup {Reply(TRUE, FALSE, e) : e \in ReplyElements}

ContentReplies ==
    {Reply(FALSE, FALSE, <<>>), Reply(TRUE, FALSE, <<>>)}
    \cup {Reply(TRUE, TRUE, es) : es \in SeqUpTo(ReplyElements, MaxReply)}

CoverItem_NoFallback(reply) == reply.value

\* isinstance(cover_item, dict) and both keys present; anything else raises
\* inside the try and the except appends DEFAULT_COVER.copy()
CoverItem(reply) ==
    IF /\ reply.ok
       /\ IsDict(reply.value)
       /\ "title" \in DOMAIN reply.value
       /\ "subtitle" \in DOMAIN reply.value
    THEN reply.value
    ELSE DEFAULT_COVER

\* isinstance(content_items, list), then items.extend(content_items); anything
\* else raises inside the try and the except only prints
ContentItems(reply) ==
    IF reply.ok /\ reply.isList THEN reply.value ELSE <<>>

generate_video_script(cover, content) ==
    <<CoverItem(cover)>> \o ContentItems(content)

-----------------------------------------------------------------------------
(* utils.py: the item store *)

save_items_to_json_NoWrite(its, file) == file

\* json.dump(items, f): the file now holds the list
save_items_to_json(its, file) == [exists |-> TRUE, data |-> its]

\* os.path.exists(path) and load_items_from_json(path)
LoadedItems == IF store.exists THEN store.data ELSE <<>>

-----------------------------------------------------------------------------
(* main.py *)

\* A new process runs main(json_file_path): Config.validate, load_input_config
\* and create_temp_dir pass
MainStart ==
    /\ pc \in {"idle", "raised"}
    /\ runs < MaxRuns
    /\ runs' = runs + 1
    /\ pc' = "script"
    /\ items' = <<>>
    /\ idx' = 1
    /\ calls' = {}
    /\ warnings' = <<>>
    /\ entry' = <<>>
    /\ exc' = "none"
    /\ args' = NoArgs
    /\ UNCHANGED <<store, numSegments, inp, out>>

ScriptNeeded_Always(loaded) == TRUE

\* if not items or len(items) != expected_total
ScriptNeeded(loaded) == loaded = <<>> \/ Len(loaded) # numSegments + 1

\* Step 1/8: load the item file if it exists, else generate and save the script
MainScript ==
    /\ pc = "script"
    /\ IF ScriptNeeded(LoadedItems)
       THEN \E cover \in CoverReplies, content \in ContentReplies :
              /\ items' = generate_video_script(cover, content)
              /\ store' = save_items_to_json(items', store)
              /\ calls' = calls \cup {Call("cover", 0, cover.ok),
                                      Call("script", 0, content.ok /\ content.isList)}
       ELSE /\ items' = LoadedItems
            /\ UNCHANGED <<store, calls>>
    /\ pc' = "prompts_call"
    /\ args' = [NoArgs EXCEPT !.fn = "generate_image_prompts", !.text = TRUE]
    /\ UNCHANGED <<idx, warnings, entry, exc, runs, numSegments, inp, out>>

\* Step 2/8 after the call returned: save, then call generate_images_batch with
\* the keyword argument image_size
MainSavePrompts ==
    /\ pc = "prompts_return"
    /\ store' = save_items_to_json(items, store)
    /\ pc' = "images_call"
    /\ args' = [NoArgs EXCEPT !.fn = "generate_images_batch", !.kwargs = {"image_size"}]
    /\ UNCHANGED <<items, idx, calls, warnings, entry, exc, runs, numSegments, inp, out>>

\* The process is interrupted or killed: its memory is gone, the files stay
Kill ==
    /\ pc \notin {"idle", "raised"}
    /\ pc' = "idle"
    /\ items' = <<>>
    /\ idx' = 1
    /\ calls' = {}
    /\ warnings' = <<>>
    /\ entry' = <<>>
    /\ exc' = "none"
    /\ args' = NoArgs
    /\ UNCHANGED <<store, runs, numSegments, inp, out>>

Init ==
    /\ pc = "idle"
    /\ items = <<>>
    /\ idx = 1
    /\ store = [exists |-> FALSE, data |-> <<>>]
    /\ calls = {}
    /\ warnings = <<>>
    /\ entry = <<>>
    /\ exc = "none"
    /\ args = NoArgs
    /\ runs = 0
    /\ numSegments \in 1..MaxSegments
    /\ inp = NoValue
    /\ out = NoValue

\* generate_images_batch never binds the call of main.py, so the run ends there
\* and the statements after main.py:103 are never executed
Next ==
    \/ MainStart
    \/ MainScript
    \/ PromptsCall
    \/ PromptItem
    \/ PromptsReturn
    \/ MainSavePrompts
    \/ ImagesCall
    \/ Kill

Spec == Init /\ [][Next]_vars

-----------------------------------------------------------------------------
(* Properties *)

Returns == {"prompts_return", "images_return", "audio_return"}

\* The field a stage produces and skips on
TargetField ==
    CASE args.fn = "generate_image_prompts" -> "Prompt"
      [] args.fn = "generate_images_batch" -> "Image"
      [] args.fn = "generate_audio_for_items" -> "audio"

PerItemCalls == {c \in calls : c.item >= 1}

AllProduced(its) ==
    \A i \in 1..Len(its) : IsDict(its[i]) /\ Truthy(Get(its[i], TargetField))

\* C1: a stage called on a list in which every item already has the stage's
\* target field non-empty leaves the list identical and makes no per-item call.
C1_PopulatedListUntouched ==
    (args.fn # "none" /\ AllProduced(entry)) =>
        (items = entry /\ PerItemCalls = {})

C1_Witness ==
    /\ pc = "images_return"
    /\ Len(entry) >= 2
    /\ AllProduced(entry)

\* C2: a Prompt or Image that is set in the persisted item file stays in the
\* file with the same value, whatever main.py does next.
C2_PersistedFieldsKept ==
    [][\A i \in 1..Len(store.data) : \A f \in {"Prompt", "Image"} :
         (IsDict(store.data[i]) /\ Truthy(Get(store.data[i], f))) =>
             /\ i <= Len(store'.data)
             /\ Get(store'.data[i], f) = Get(store.data[i], f)]_vars

\* A run that loaded the script and found every Prompt persisted: it made no
\* text-generation call for the script or for any item
ResumedRun ==
    /\ runs >= 2
    /\ items # <<>>
    /\ \A i \in 1..Len(items) : IsDict(items[i]) /\ Truthy(Get(items[i], "Prompt"))
    /\ ~\E c \in calls : c.kind \in {"cover", "script", "prompt"}

\* C3: a re-run that resumes by field check makes no generation call for the
\* persisted fields and goes on to assembly: it does not end in a generation stage.
C3_ResumeReachesAssembly ==
    ResumedRun => pc # "raised"

C5_ItemFailureContained ==
    [][/\ \A c \in calls' \ calls :
            (c.item >= 1 /\ ~c.ok) =>
                /\ pc' = pc
                /\ exc' = "none"
                /\ idx' = c.item + 1
                /\ items' = items
       /\ pc' \in Returns => idx' = Len(items') + 1]_vars

C5_Witness ==
    /\ pc = "audio_return"
    /\ Len(items) >= 2
    /\ \E c \in calls : c.item = 1 /\ ~c.ok
    /\ ~Truthy(Get(items[1], "audio"))
    /\ ~Truthy(Get(entry[2], "audio"))
    /\ Truthy(Get(items[2], "audio"))

\* generate_audio_for_items(split_items, config['voice'], audio_dir): the voice
\* of the run input is a voice name, a str
MainAudioArgs == [NoArgs EXCEPT !.fn = "generate_audio_for_items", !.template = "str"]

TitleSchema(its) ==
    \A i \in 1..Len(its) :
        IsDict(its[i]) /\ DOMAIN its[i] \cap {"TextTop", "TextBottom"} = {}

\* C6: the audio stage called as main.py calls it, on title/subtitle items and
\* with every synthesis succeeding, returns and leaves every item that has a
\* subtitle with an audio path.
C6_PipelineAudioComplete ==
    (/\ args = MainAudioArgs
     /\ pc \in {"audio_return", "raised"}
     /\ TitleSchema(entry)
     /\ \E i \in 1..Len(entry) : Truthy(Get(entry[i], "subtitle"))
     /\ \A c \in calls : c.ok) =>
        /\ pc = "audio_return"
        /\ \A i \in 1..Len(items) :
             Truthy(Get(items[i], "subtitle")) => Truthy(Get(items[i], "audio"))

\* C7: the image stage called as main.py calls it, with every image call
\* succeeding, returns and leaves every item that has a Prompt with an Image.
C7_PipelineImagesComplete ==
    (/\ args.fn = "generate_images_batch"
     /\ pc \in {"images_return", "raised"}
     /\ \A c \in calls : c.kind = "image" => c.ok) =>
        /\ pc = "images_return"
        /\ \A i \in 1..Len(items) :
             Truthy(Get(items[i], "Prompt")) => Truthy(Get(items[i], "Image"))

\* C8: when the content-script call fails or its reply does not parse, the
\* script stage still returns 1 cover item plus N content items.
C8_ScriptFallbackSegments ==
    (pc = "prompts_call" /\ Call("script", 0, FALSE) \in calls) =>
        Len(items) = numSegments + 1

\* C9: every item the script stage returns is an object with a title and a
\* subtitle.
C9_ScriptItemsShaped ==
    (pc = "prompts_call" /\ \E c \in calls : c.kind = "script") =>
        \A i \in 1..Len(items) :
            IsDict(items[i]) /\ {"title", "subtitle"} \subseteq DOMAIN items[i]

StageOf ==
    CASE args.fn = "generate_image_prompts" -> "prompts"
      [] args.fn = "generate_images_batch" -> "images"
      [] args.fn = "generate_audio_for_items" -> "audio"

\* The prerequisite of a stage is missing: both captions empty (prompt, audio),
\* no Prompt (image)
LacksPrerequisite(item) ==
    CASE args.fn = "generate_image_prompts" ->
             Get(item, "title") = 0 /\ Get(item, "subtitle") = 0
      [] args.fn = "generate_images_batch" -> Get(item, "Prompt") = 0
      [] args.fn = "generate_audio_for_items" ->
             Get(item, "TextTop") = 0 /\ Get(item, "TextBottom") = 0

\* The items the loop has passed that lacked both the prerequisite and the output
Unserved ==
    {i \in 1..(idx - 1) :
        Get(entry[i], TargetField) = 0 /\ LacksPrerequisite(entry[i])}

SetByStage(i, field) == Get(items[i], field) # Get(entry[i], field)

\* The calls the claim asks to have succeeded before audio is set: one
\* synthesis, or for an item with both texts two syntheses and the merge
RequiredAudioCalls(item) ==
    IF Truthy(Get(item, "TextTop")) /\ Truthy(Get(item, "TextBottom"))
    THEN {"tts_top", "tts_bottom", "merge"}
    ELSE IF Truthy(Get(item, "TextTop")) THEN {"tts_top"} ELSE {"tts_bottom"}

\* C33: in every state of a stage, an item whose Prompt, Image or audio the
\* stage has set has a non-empty value there and a successful call of that
\* stage for it (for audio: every synthesis the item needs, and the merge
\* when it needs two); an item with a failed call of the stage is as it was
\* when the stage was called.
C33_SetOnlyAfterSuccess ==
    \A i \in 1..Len(items) :
        IsDict(items[i]) =>
            /\ SetByStage(i, "Prompt") =>
                  Truthy(Get(items[i], "Prompt")) /\ Call("prompt", i, TRUE) \in calls
            /\ SetByStage(i, "Image") =>
                  Truthy(Get(items[i], "Image")) /\ Call("image", i, TRUE) \in calls
            /\ SetByStage(i, "audio") =>
                  /\ Truthy(Get(items[i], "audio"))
                  /\ \A kind \in RequiredAudioCalls(entry[i]) : Call(kind, i, TRUE) \in calls
            /\ (\E c \in calls : c.item = i /\ ~c.ok) => items[i] = entry[i]

C33_Witness ==
    /\ pc = "audio_return"
    /\ Len(items) = 2
    /\ Call("tts_top", 1, TRUE) \in calls
    /\ Call("tts_bottom", 1, TRUE) \in calls
    /\ Call("merge", 1, FALSE) \in calls
    /\ items[1] = entry[1]
    /\ RequiredAudioCalls(entry[2]) = {"tts_top", "tts_bottom", "merge"}
    /\ SetByStage(2, "audio")

-----------------------------------------------------------------------------
(* utils.calculate_audio_duration, utils.generate_slide_list_from_items,   *)
(* the duration stage of main.py and the file loading of create_video.     *)
(* Here inp is the disk: inp.image[p] tells whether an image file exists   *)
(* at path p, inp.audio[p] what AudioFileClip finds at path p.  out is the *)
(* slides list.  A duration is a whole number of seconds.                  *)

\* duration = 3.0  # 默认时长
DefaultDuration == 3

\* What can be at an audio path: nothing, a file moviepy cannot read, a clip
\* of length zero, a clip of positive length
AudioFiles ==
    {[exists |-> FALSE, readable |-> FALSE, duration |-> 0],
     [exists |-> TRUE, readable |-> FALSE, duration |-> 0],
     [exists |-> TRUE, readable |-> TRUE, duration |-> 0],
     [exists |-> TRUE, readable |-> TRUE, duration |-> 4]}

Disks == [image : [{OldValue} -> BOOLEAN], audio : [{OldValue} -> AudioFiles]]

\* try: AudioFileClip(audio_file).duration  except Exception: return 0.0
calculate_audio_duration(audio_file) ==
    LET clip == inp.audio[audio_file] IN
    IF clip.exists /\ clip.readable THEN clip.duration ELSE 0

SlideExcluded_NeedsSubtitle(item) ==
    ~Truthy(Get(item, "Image")) \/ ~Truthy(Get(item, "audio")) \/ ~Truthy(Get(item, "subtitle"))

\* if not item.get('Image') or not item.get('audio'): warn, continue
SlideExcluded(item) ==
    ~Truthy(Get(item, "Image")) \/ ~Truthy(Get(item, "audio"))

SlideMeasures_Always(item) == TRUE

\* duration = item.get('duration'); if duration is None or duration == 0
SlideMeasures(item) == "duration" \notin DOMAIN item \/ item.duration = 0

SlideDuration_NoDefault(item) ==
    IF SlideMeasures(item) THEN calculate_audio_duration(item.audio) ELSE item.duration

\* The duration the slide builder resolves for an item it keeps
SlideDuration(item) ==
    IF SlideMeasures(item)
    THEN LET duration == calculate_audio_duration(item.audio) IN
         IF duration = 0 THEN DefaultDuration ELSE duration
    ELSE item.duration

\* slides.append({"image": ..., "audio": ..., "title": ..., "subtitle": ..., "duration": ...})
Slide(item, duration) ==
    [image |-> item.Image, audio |-> item.audio, title |-> Get(item, "title"),
     subtitle |-> Get(item, "subtitle"), duration |-> duration]

\* The statements of one pass of the for-loop, for the item at idx
SlideItemStep ==
    LET item == items[idx] IN
    /\ idx' = idx + 1
    /\ IF SlideExcluded(item)
       THEN /\ warnings' = Append(warnings, Warning("slides", idx))
            /\ UNCHANGED <<items, calls, out>>
       ELSE LET duration == SlideDuration(item) IN
            /\ calls' = IF SlideMeasures(item)
                        THEN calls \cup {Call("measure", idx, calculate_audio_duration(item.audio) > 0)}
                        ELSE calls
            /\ items' = IF SlideMeasures(item)
                        THEN [items EXCEPT ![idx] = Put(item, "duration", duration)]
                        ELSE items
            /\ out' = Append(out, Slide(item, duration))
            /\ UNCHANGED warnings

SlidesCall ==
    /\ pc = "slides_call"
    /\ entry' = items
    /\ idx' = 1
    /\ out' = <<>>
    /\ pc' = "slides"
    /\ UNCHANGED <<items, store, calls, warnings, exc, args, runs, numSegments, inp>>

SlideItem ==
    /\ pc = "slides"
    /\ idx <= Len(items)
    /\ SlideItemStep
    /\ UNCHANGED <<pc, store, entry, exc, args, runs, numSegments, inp>>

SlidesReturn ==
    /\ pc = "slides"
    /\ idx > Len(items)
    /\ pc' = "slides_return"
    /\ UNCHANGED <<items, idx, store, calls, warnings, entry, exc, args, runs, numSegments, inp, out>>

\* One pass of the duration loop of main.py
MainDuration(item) ==
    IF Truthy(Get(item, "audio")) /\ ~Truthy(Get(item, "duration"))
    THEN LET duration == calculate_audio_duration(item.audio) IN
         IF duration > 0 THEN Put(item, "duration", duration)
                         ELSE Put(item, "duration", DefaultDuration)
    ELSE item

\* Step 7/8 of main.py: the whole duration loop
DurationStage ==
    /\ pc = "durations"
    /\ items' = [i \in 1..Len(items) |-> MainDuration(items[i])]
    /\ pc' = "slides_call"
    /\ UNCHANGED <<idx, store, calls, warnings, entry, exc, args, runs, numSegments, inp, out>>

\* ImageClip(slide["image"]) and AudioFileClip(slide["audio"]) raise on a file
\* that is not there or cannot be read; create_video catches nothing
create_video(slides) ==
    IF \E k \in 1..Len(slides) :
          \/ ~inp.image[slides[k].image]
          \/ ~inp.audio[slides[k].audio].exists
          \/ ~inp.audio[slides[k].audio].readable
    THEN "raised"
    ELSE "written"

\* Step 8/8 of main.py after the slide list is built: no slides ends the run,
\* an exception of create_video is printed and ends the run
MainVideo ==
    /\ pc = "slides_return"
    /\ pc' = IF out = <<>> THEN "no_slides"
             ELSE IF create_video(out) = "raised" THEN "video_failed"
             ELSE "video_done"
    /\ UNCHANGED <<items, idx, store, calls, warnings, entry, exc, args, runs, numSegments, inp, out>>

\* Items as they reach the assembly: dicts, with or without a rendered image,
\* an audio path and a recorded duration (possibly read back from the file)
SlidePool ==
    ItemsOf({TitleSubtitle},
            {Absent},
            {Absent, [Image |-> 0], [Image |-> OldValue]},
            {Absent, [audio |-> 0], [audio |-> OldValue]})
    \cup {[Image |-> OldValue, duration |-> 5], [audio |-> OldValue, duration |-> 0]}
    \cup {[title |-> t, subtitle |-> 1, Image |-> OldValue, audio |-> OldValue] @@ d :
            t \in {1, 2}, d \in {[duration |-> 0], [duration |-> 5], [duration |-> -1]}}
    \cup {[title |-> 2, Image |-> OldValue, audio |-> OldValue]}

SlideInit ==
    /\ \/ /\ pc = "durations"
          /\ args = [NoArgs EXCEPT !.fn = "main"]
       \/ /\ pc = "slides_call"
          /\ args = [NoArgs EXCEPT !.fn = "generate_slide_list_from_items"]
    /\ items \in SeqUpTo(SlidePool, MaxItems)
    /\ inp \in Disks
    /\ out = <<>>
    /\ idx = 1
    /\ store = [exists |-> FALSE, data |-> <<>>]
    /\ calls = {}
    /\ warnings = <<>>
    /\ entry = items
    /\ exc = "none"
    /\ runs = 0
    /\ numSegments = 1

SlideNext ==
    \/ DurationStage
    \/ SlidesCall
    \/ SlideItem
    \/ SlidesReturn
    \/ MainVideo

SlideSpec == SlideInit /\ [][SlideNext]_vars

-----------------------------------------------------------------------------
(* Properties of the slide builder and of the duration resolution *)

\* The positions of the items that have both a non-empty Image and a non-empty
\* audio among the first n, in ascending order
RECURSIVE CompletePositions(_, _)
CompletePositions(its, n) ==
    IF n = 0 THEN <<>>
    ELSE LET before == CompletePositions(its, n - 1) IN
         IF Truthy(Get(its[n], "Image")) /\ Truthy(Get(its[n], "audio"))
         THEN Append(before, n)
         ELSE before

RECURSIVE IncompletePositions(_, _)
IncompletePositions(its, n) ==
    IF n = 0 THEN <<>>
    ELSE LET before == IncompletePositions(its, n - 1) IN
         IF Truthy(Get(its[n], "Image")) /\ Truthy(Get(its[n], "audio"))
         THEN before
         ELSE Append(before, n)

\* C11: when generate_slide_list_from_items returns, the slides are, in order,
\* one for each item that has both a non-empty Image and a non-empty audio,
\* each carrying the image, audio, title and subtitle of its item; every other
\* item has exactly one warning, in order, and no exception has been raised.
C11_OneSlidePerCompleteItem ==
    pc = "slides_return" =>
        LET kept == CompletePositions(entry, Len(entry))
            left == IncompletePositions(entry, Len(entry))
        IN /\ exc = "none"
           /\ Len(out) = Len(kept)
           /\ \A k \in 1..Len(kept) :
                 /\ out[k].image = entry[kept[k]].Image
                 /\ out[k].audio = entry[kept[k]].audio
                 /\ out[k].title = Get(entry[kept[k]], "title")
                 /\ out[k].subtitle = Get(entry[kept[k]], "subtitle")
           /\ warnings = [k \in 1..Len(left) |-> Warning("slides", left[k])]

C11_Witness ==
    /\ pc = "slides_return"
    /\ Len(entry) = 2
    /\ SlideExcluded(entry[1])
    /\ Len(out) = 1
    /\ warnings = <<Warning("slides", 1)>>

\* The duration the claim prescribes for an item that has an audio path
PrescribedDuration(item) ==
    LET clip == inp.audio[item.audio] IN
    IF "duration" \in DOMAIN item /\ item.duration # 0
    THEN item.duration
    ELSE IF clip.exists /\ clip.readable /\ clip.duration > 0
    THEN clip.duration
    ELSE DefaultDuration

\* C12: in the slide builder and in the duration stage of main.py alike, the
\* resolved duration of an item is its recorded duration when that is present
\* and nonzero, else the measured length of its audio when that is positive,
\* else (measurement yields zero or fails) exactly the default 3.0.
C12_DurationResolution ==
    /\ pc = "slides_return" =>
          LET kept == CompletePositions(entry, Len(entry)) IN
          \A k \in 1..Len(out) :
             /\ out[k].duration = PrescribedDuration(entry[kept[k]])
             /\ items[kept[k]].duration = PrescribedDuration(entry[kept[k]])
    /\ (pc = "slides_call" /\ args.fn = "main") =>
          \A i \in 1..Len(entry) :
             Truthy(Get(entry[i], "audio")) =>
                items[i].duration = PrescribedDuration(entry[i])

C12_Witness ==
    /\ pc = "slides_return"
    /\ Call("measure", 1, FALSE) \in calls
    /\ Len(out) = 2
    /\ out[1].duration = DefaultDuration
    /\ Get(entry[2], "duration") = 5
    /\ out[2].duration = 5

\* The item has an image and an audio, and no duration or a duration of zero
LacksDuration(item) ==
    /\ Truthy(Get(item, "Image"))
    /\ Truthy(Get(item, "audio"))
    /\ "duration" \notin DOMAIN item \/ item.duration = 0

\* C35: while generate_slide_list_from_items runs and when it has returned,
\* the item list has the length and order it had at the call; an item differs
\* from what it was only if it has an image and an audio and had no duration
\* or a duration of zero, and then only in its duration; at the return that
\* duration is the one of the item's slide.
C35_SlideBuilderFrame ==
    pc \in {"slides", "slides_return"} =>
        /\ Len(items) = Len(entry)
        /\ \A i \in 1..Len(items) :
              \/ items[i] = entry[i]
              \/ /\ LacksDuration(entry[i])
                 /\ DOMAIN items[i] = (DOMAIN entry[i]) \cup {"duration"}
                 /\ \A f \in (DOMAIN entry[i]) \ {"duration"} : items[i][f] = entry[i][f]
        /\ pc = "slides_return" =>
              LET kept == CompletePositions(entry, Len(entry)) IN
              \A k \in 1..Len(kept) :
                 LacksDuration(entry[kept[k]]) =>
                    items[kept[k]].duration = out[k].duration

C35_Witness ==
    /\ pc = "slides_return"
    /\ Len(entry) = 2
    /\ ~Truthy(Get(entry[1], "Image"))
    /\ items[1] = entry[1]
    /\ LacksDuration(entry[2])
    /\ Get(entry[2], "duration") = 0
    /\ items[2].duration = DefaultDuration
    /\ Len(out) = 1

\* C13: every slide the slide builder returns has a duration greater than zero,
\* whatever durations the items carried when it was called.
C13_SlideDurationsPositive ==
    pc = "slides_return" => \A k \in 1..Len(out) : out[k].duration > 0

\* An item names a missing file: its Image or audio is a path with no file
NamesMissingFile(item) ==
    \/ Truthy(Get(item, "Image")) /\ ~inp.image[item.Image]
    \/ Truthy(Get(item, "audio")) /\ ~inp.audio[item.audio].exists

\* C14: an item whose Image or audio names a file that is not on disk has a
\* warning and no slide when the slide builder returns, and the run does not
\* end in a failure of the video composition because of it.
C14_MissingFileExcluded ==
    /\ pc = "slides_return" =>
          \A i \in 1..Len(entry) :
             NamesMissingFile(entry[i]) =>
                /\ Warning("slides", i) \in {warnings[k] : k \in 1..Len(warnings)}
                /\ SlideExcluded(entry[i])
    /\ pc = "video_failed" =>
          \A i \in 1..Len(items) : ~NamesMissingFile(items[i])

-----------------------------------------------------------------------------
(* utils.split_text_by_length.  A text is a sequence of characters; "."    *)
(* stands for the sentence ends 。！？, "," for the clause ends ，；, " "   *)
(* for whitespace, every other character is an ordinary one.  Here inp is  *)
(* the arguments of the call and out the list it returns.                  *)

MaxLen == 5
MaxChars == 3

SentenceEnd == {"."}
ClauseEnd == {","}
Whitespace == {" "}
Chars == {"a", "b"} \cup SentenceEnd \cup ClauseEnd \cup Whitespace

RECURSIVE lstrip(_)
lstrip(t) == IF t # <<>> /\ Head(t) \in Whitespace THEN lstrip(Tail(t)) ELSE t

RECURSIVE rstrip(_)
rstrip(t) ==
    IF t # <<>> /\ t[Len(t)] \in Whitespace THEN rstrip(SubSeq(t, 1, Len(t) - 1)) ELSE t

\* str.strip()
strip(t) == rstrip(lstrip(t))

\* re.split(r'([...])', text) with the delimiter captured: the pieces between
\* delimiters alternate with the delimiters, <<t0, d1, t1, ..., dn, tn>>;
\* cur is the piece being read
RECURSIVE re_split(_, _, _)
re_split(text, delimiters, cur) ==
    IF text = <<>> THEN <<cur>>
    ELSE IF Head(text) \in delimiters
    THEN <<cur, <<Head(text)>>>> \o re_split(Tail(text), delimiters, <<>>)
    ELSE re_split(Tail(text), delimiters, Append(cur, Head(text)))

\* The concatenation of a list of lists
RECURSIVE Flatten(_)
Flatten(lists) == IF lists = <<>> THEN <<>> ELSE Head(lists) \o Flatten(Tail(lists))

NotBlank(t) == strip(t) # <<>>

NotEmpty(t) == t # <<>>

\* for i in range(0, len(sentences), 2): a piece joined with its delimiter,
\* the last piece alone when it is not blank; then the blank parts are
\* dropped and the others stripped
SentenceParts(text) ==
    LET sentences == re_split(text, SentenceEnd, <<>>)
        parts == Flatten([k \in 1..((Len(sentences) + 1) \div 2) |->
                    IF 2 * k <= Len(sentences)
                    THEN <<sentences[2 * k - 1] \o sentences[2 * k]>>
                    ELSE IF NotBlank(sentences[2 * k - 1])
                    THEN <<sentences[2 * k - 1]>>
                    ELSE <<>>])
        kept == SelectSeq(parts, NotBlank)
    IN [k \in 1..Len(kept) |-> strip(kept[k])]

ClauseSegments_NoDelimiter(part) ==
    LET sub_parts == re_split(part, ClauseEnd, <<>>) IN
    [k \in 1..((Len(sub_parts) + 1) \div 2) |-> sub_parts[2 * k - 1]]

\* segment = sub_parts[i], plus sub_parts[i + 1] when there is one
ClauseSegments(part) ==
    LET sub_parts == re_split(part, ClauseEnd, <<>>) IN
    [k \in 1..((Len(sub_parts) + 1) \div 2) |->
        IF 2 * k <= Len(sub_parts)
        THEN sub_parts[2 * k - 1] \o sub_parts[2 * k]
        ELSE sub_parts[2 * k - 1]]

\* while len(current) > max_chars: result.append(current[:max_chars]);
\* current = current[max_chars:]
RECURSIVE HardCut(_, _)
HardCut(current, max_chars) ==
    IF Len(current) > max_chars
    THEN LET more == HardCut(SubSeq(current, max_chars + 1, Len(current)), max_chars) IN
         [cut |-> <<SubSeq(current, 1, max_chars)>> \o more.cut, rest |-> more.rest]
    ELSE [cut |-> <<>>, rest |-> current]

\* result and current after the first k passes of the loop over the segments
RECURSIVE Accumulate(_, _, _)
Accumulate(segments, k, max_chars) ==
    IF k = 0 THEN [result |-> <<>>, current |-> <<>>]
    ELSE LET before == Accumulate(segments, k - 1, max_chars)
             segment == segments[k]
         IN IF Len(before.current \o segment) <= max_chars
            THEN [result |-> before.result, current |-> before.current \o segment]
            ELSE LET flushed == IF before.current # <<>>
                                THEN Append(before.result, strip(before.current))
                                ELSE before.result
                     cut == HardCut(segment, max_chars)
                 IN [result |-> flushed \o cut.cut, current |-> cut.rest]

SplitLongPart_Whole(part, max_chars) == <<part>>

\* The else branch of the loop over parts: a part longer than max_chars
SplitLongPart(part, max_chars) ==
    LET segments == ClauseSegments(part)
        after == Accumulate(segments, Len(segments), max_chars)
    IN IF after.current # <<>>
       THEN Append(after.result, strip(after.current))
       ELSE after.result

split_text_by_length(text, max_chars) ==
    IF text = <<>> \/ Len(text) <= max_chars
    THEN <<text>>
    ELSE LET parts == SentenceParts(text)
             result == Flatten([k \in 1..Len(parts) |->
                          IF Len(parts[k]) <= max_chars
                          THEN <<parts[k]>>
                          ELSE SplitLongPart(parts[k], max_chars)])
         IN SelectSeq(result, NotEmpty)

\* "这是第一句。这是第二句，它很长很长很长很长很长很长很长很长很长很长。"
LiteralCaption ==
    [i \in 1..34 |-> IF i \in {6, 34} THEN "." ELSE IF i = 12 THEN "," ELSE "a"]

SplitTextInputs ==
    {[text |-> t, max_chars |-> m] : t \in SeqUpTo(Chars, MaxLen), m \in 1..MaxChars}
    \cup {[text |-> LiteralCaption, max_chars |-> 20]}

SplitText ==
    /\ pc = "split_text_call"
    /\ out' = split_text_by_length(inp.text, inp.max_chars)
    /\ pc' = "split_text_return"
    /\ UNCHANGED <<items, idx, store, calls, warnings, entry, exc, args, runs, numSegments, inp>>

-----------------------------------------------------------------------------
(* utils.split_item_if_needed, utils.clean_items_for_first_json and the    *)
(* split loop of main.py.  The subtitle of an item is a text here.  An     *)
(* audio path i other than OldValue is .../audio_<i>.mp3, OldValue is a    *)
(* path whose file name has no audio_<digits>.  A _split_index             *)
(* "<base>_<sub>" is the pair of its two numbers.                          *)

\* max_chars=50 of the call in main.py
MainMaxChars == 50

\* new_item['_split_index'] = None
None == [base |-> 0, sub |-> 0]

\* item.get('subtitle', '')
GetText(item, k) == IF k \in DOMAIN item THEN item[k] ELSE <<>>

\* item.copy() followed by pop(k, None) for every k of keys
Pop(item, keys) == [f \in (DOMAIN item) \ keys |-> item[f]]

\* re.search(r'audio_(\d+)', audio_filename) finds a number
HasAudioNumber(audio_path) == audio_path # OldValue

\* base_index, None when the item has no audio path or its name has no number
BaseIndex(item) ==
    LET audio_path == Get(item, "audio") IN
    IF Truthy(audio_path) /\ HasAudioNumber(audio_path) THEN audio_path ELSE 0

split_item_if_needed_AlwaysCopies(item, max_chars) ==
    <<Pop(item, {"audio", "duration"})>>

split_item_if_needed(item, max_chars) ==
    LET subtitle == GetText(item, "subtitle") IN
    IF subtitle = <<>> \/ Len(subtitle) <= max_chars
    THEN <<item>>
    ELSE LET split_subtitles == split_text_by_length(subtitle, max_chars) IN
         IF Len(split_subtitles) <= 1
         THEN <<item>>
         ELSE [i \in 1..Len(split_subtitles) |->
                 Put(Put(Pop(item, {"audio", "duration"}), "subtitle", split_subtitles[i]),
                     "_split_index",
                     IF BaseIndex(item) # 0
                     THEN [base |-> BaseIndex(item), sub |-> i]
                     ELSE None)]

clean_items_for_first_json(its) ==
    [i \in 1..Len(its) |->
        [title |-> Get(its[i], "title"), subtitle |-> GetText(its[i], "subtitle"),
         Prompt |-> Get(its[i], "Prompt"), Image |-> Get(its[i], "Image")]]

\* Two sentences of 30 characters each
LongCaption ==
    [i \in 1..60 |-> IF i \in {30, 60} THEN "." ELSE IF i < 30 THEN "a" ELSE "b"]

SplitSubtitles ==
    {<<>>, <<"a">>, <<"a", ".", "b", ".">>, <<"a", ",", "b", "b">>, <<"a", "b", "a", "b", "a">>,
     <<" ", " ", " ", " ">>, <<"a", ".", " ", " ">>, LongCaption}

SplitPool ==
    {[title |-> 1, subtitle |-> t, Prompt |-> OldValue, Image |-> OldValue] @@ a @@ d :
        t \in SplitSubtitles,
        a \in {Absent, [audio |-> 0], [audio |-> 1], [audio |-> OldValue]},
        d \in {Absent, [duration |-> 5]}}
    \cup {[title |-> 1]}

\* Items as the image stage leaves them in main.py: some with fields that
\* clean_items_for_first_json drops
MainSplitPool ==
    {[title |-> 1, subtitle |-> t, Prompt |-> OldValue, Image |-> OldValue] @@ a :
        t \in {<<"a">>, LongCaption}, a \in {Absent, [audio |-> 1, duration |-> 5]}}
    \cup {[title |-> 1]}

SplitItemInputs ==
    {[item |-> i, max_chars |-> m] : i \in SplitPool, m \in (1..MaxChars) \cup {MainMaxChars}}

SplitItem ==
    /\ pc = "split_item_call"
    /\ out' = split_item_if_needed(inp.item, inp.max_chars)
    /\ pc' = "split_item_return"
    /\ UNCHANGED <<items, idx, store, calls, warnings, entry, exc, args, runs, numSegments, inp>>

\* Steps 4/8 and 5/8 of main.py: the items are cleaned, then each is split
MainSplit ==
    /\ pc = "main_split_call"
    /\ LET cleaned_items == clean_items_for_first_json(items) IN
       out' = Flatten([i \in 1..Len(cleaned_items) |->
                         split_item_if_needed(cleaned_items[i], MainMaxChars)])
    /\ entry' = items
    /\ pc' = "main_split_return"
    /\ UNCHANGED <<items, idx, store, calls, warnings, exc, args, runs, numSegments, inp>>

SplitInit ==
    /\ \/ /\ pc = "split_text_call"
          /\ inp \in SplitTextInputs
          /\ items = <<>>
       \/ /\ pc = "split_item_call"
          /\ inp \in SplitItemInputs
          /\ items = <<>>
       \/ /\ pc = "main_split_call"
          /\ inp = NoValue
          /\ items \in SeqUpTo(MainSplitPool, MaxItems)
    /\ out = NoValue
    /\ idx = 1
    /\ store = [exists |-> FALSE, data |-> <<>>]
    /\ calls = {}
    /\ warnings = <<>>
    /\ entry = items
    /\ exc = "none"
    /\ args = NoArgs
    /\ runs = 0
    /\ numSegments = 1

SplitNext ==
    \/ SplitText
    \/ SplitItem
    \/ MainSplit

SplitSpec == SplitInit /\ [][SplitNext]_vars

-----------------------------------------------------------------------------
(* Properties of the segmentation *)

\* C15: every chunk split_text_by_length returns is at most max_chars long
\* (a hard-cut chunk is exactly max_chars long, so no chunk needs the
\* exception the claim allows), and the two-sentence caption with
\* max_chars = 20 gives at least 2 chunks, each of at most 20 characters.
C15_ChunksBounded ==
    pc = "split_text_return" =>
        /\ \A k \in 1..Len(out) : Len(out[k]) <= inp.max_chars
        /\ (inp.text = LiteralCaption /\ inp.max_chars = 20) => Len(out) >= 2

C15_Witness ==
    /\ pc = "split_text_return"
    /\ inp.max_chars = 2
    /\ inp.text = <<"a", ",", "b", "b", "b">>
    /\ out = <<<<"a", ",">>, <<"b", "b">>, <<"b">>>>

\* text is the chunks in order with nothing but whitespace before, between
\* and after them
RECURSIVE ChunksCover(_, _)
ChunksCover(text, chunks) ==
    IF chunks = <<>>
    THEN \A i \in 1..Len(text) : text[i] \in Whitespace
    ELSE \E skipped \in 0..Len(text) :
            /\ \A i \in 1..skipped : text[i] \in Whitespace
            /\ skipped + Len(Head(chunks)) <= Len(text)
            /\ SubSeq(text, skipped + 1, skipped + Len(Head(chunks))) = Head(chunks)
            /\ ChunksCover(SubSeq(text, skipped + Len(Head(chunks)) + 1, Len(text)),
                           Tail(chunks))

\* C16: the chunks split_text_by_length returns, read in order, are the
\* caption with only whitespace left out, and only before, between or after
\* chunks: no other character is dropped, duplicated or moved.
C16_ChunksLossless ==
    pc = "split_text_return" => ChunksCover(inp.text, out)

C16_Witness ==
    /\ pc = "split_text_return"
    /\ inp.max_chars = 2
    /\ inp.text = <<"a", ".", " ", "b", ".">>
    /\ out = <<<<"a", ".">>, <<"b", ".">>>>

\* C17: the items split_item_if_needed makes out of one item in two or more
\* chunks have every field of the source but audio, duration and the replaced
\* subtitle, have no audio and no duration, and carry a _split_index that is
\* set and names the source and the chunk's number k; an item returned
\* unsplit has no _split_index.  The same holds of the split loop of main.py.
C17_SplitProvenance ==
    /\ pc = "split_item_return" =>
          IF Len(out) >= 2
          THEN \A k \in 1..Len(out) :
                  /\ DOMAIN out[k] = ((DOMAIN inp.item) \ {"audio", "duration"}) \cup {"_split_index"}
                  /\ \A f \in (DOMAIN inp.item) \ {"audio", "duration", "subtitle"} :
                        out[k][f] = inp.item[f]
                  /\ out[k]["_split_index"] # None
                  /\ out[k]["_split_index"].sub = k
          ELSE "_split_index" \notin DOMAIN out[1]
    /\ pc = "main_split_return" =>
          \A k \in 1..Len(out) :
             "_split_index" \in DOMAIN out[k] => out[k]["_split_index"] # None

\* C28: split_item_if_needed returns the item it was given as the only
\* element, with its audio, its duration and no _split_index, when the caption
\* is empty, is at most max_chars long or splits into at most one chunk; only
\* a caption that splits into two or more chunks gives new items, one per
\* chunk.
C28_UnsplitItemReturned ==
    pc = "split_item_return" =>
        LET subtitle == GetText(inp.item, "subtitle")
            chunks == split_text_by_length(subtitle, inp.max_chars)
        IN  IF subtitle = <<>> \/ Len(subtitle) <= inp.max_chars \/ Len(chunks) <= 1
            THEN out = <<inp.item>>
            ELSE /\ Len(out) = Len(chunks)
                 /\ Len(out) >= 2
                 /\ \A k \in 1..Len(out) :
                       /\ out[k] # inp.item
                       /\ out[k].subtitle = chunks[k]

C28_Witness ==
    /\ pc = "split_item_return"
    /\ Len(GetText(inp.item, "subtitle")) > inp.max_chars
    /\ Len(split_text_by_length(GetText(inp.item, "subtitle"), inp.max_chars)) = 1
    /\ out = <<inp.item>>
    /\ Get(inp.item, "audio") = 1
    /\ Get(out[1], "duration") = 5
    /\ "_split_index" \notin DOMAIN out[1]

-----------------------------------------------------------------------------
(* utils.save_items_to_json and utils.load_items_from_json on the JSON     *)
(* text of the file.  A Python value carries its type, a JSON value its    *)
(* kind; a JSON number keeps whether it is written with a fraction.  The   *)
(* members of a JSON object are a list of <<key, value>> pairs in the      *)
(* order they are written.                                                 *)

PyStr(n) == [type |-> "str", v |-> n]
PyFloat(n) == [type |-> "float", v |-> n]
PyInt(n) == [type |-> "int", v |-> n]
PyNone == [type |-> "NoneType", v |-> 0]

\* json.dump of a str, float, int or None
json_dump_value(x) ==
    CASE x.type = "str" -> [kind |-> "string", v |-> x.v, fraction |-> FALSE]
      [] x.type = "float" -> [kind |-> "number", v |-> x.v, fraction |-> TRUE]
      [] x.type = "int" -> [kind |-> "number", v |-> x.v, fraction |-> FALSE]
      [] x.type = "NoneType" -> [kind |-> "null", v |-> 0, fraction |-> FALSE]

\* json.load of a string, a number or null
json_load_value(j) ==
    CASE j.kind = "string" -> PyStr(j.v)
      [] j.kind = "number" -> IF j.fraction THEN PyFloat(j.v) ELSE PyInt(j.v)
      [] j.kind = "null" -> PyNone

\* The order in which the code puts the keys into an item
KeyOrder == <<"title", "subtitle", "Prompt", "Image", "audio", "duration", "_split_index">>

\* json.dump of a dict: its members in the order of the dict
json_dump_item(item) ==
    LET keys == SelectSeq(KeyOrder, LAMBDA k : k \in DOMAIN item) IN
    [kind |-> "object",
     members |-> [i \in 1..Len(keys) |-> <<keys[i], json_dump_value(item[keys[i]])>>]]

\* json.load of an object: a dict, the last member of a key giving its value
json_load_item(j) ==
    LET last(k) == CHOOSE i \in 1..Len(j.members) :
                      /\ j.members[i][1] = k
                      /\ \A n \in (i + 1)..Len(j.members) : j.members[n][1] # k
    IN [k \in {j.members[i][1] : i \in 1..Len(j.members)} |->
           json_load_value(j.members[last(k)][2])]

json_dump_Wrapped(its) ==
    [kind |-> "object", template |-> "default",
     elements |-> [i \in 1..Len(its) |-> json_dump_item(its[i])]]

\* json.dump(items, f, ...): the list is written as an array
json_dump(its) ==
    [kind |-> "array", template |-> "none",
     elements |-> [i \in 1..Len(its) |-> json_dump_item(its[i])]]

\* json.load of an array of objects
json_load(doc) == [i \in 1..Len(doc.elements) |-> json_load_item(doc.elements[i])]

load_items_from_json_AnyShape(file) ==
    IF ~file.exists
    THEN [raised |-> "FileNotFoundError", data |-> <<>>]
    ELSE [raised |-> "none", data |-> json_load(file.data)]

\* open, json.load, if not isinstance(data, list): raise ValueError; every
\* exception is printed and raised again
load_items_from_json(file) ==
    IF ~file.exists
    THEN [raised |-> "FileNotFoundError", data |-> <<>>]
    ELSE IF file.data.kind # "array"
    THEN [raised |-> "ValueError", data |-> <<>>]
    ELSE [raised |-> "none", data |-> json_load(file.data)]

\* Items with typed values, as the stages leave them
StorePool ==
    {[title |-> PyStr(1), subtitle |-> s] @@ d @@ m :
        s \in {PyStr(0), PyStr(2)},
        d \in {Absent, [duration |-> PyFloat(3)], [duration |-> PyInt(3)]},
        m \in {Absent, [_split_index |-> PyNone], [_split_index |-> PyStr(3)]}}
    \cup {EmptyDict, [audio |-> PyStr(OldValue), Image |-> PyStr(OldValue)]}

\* The files a load can find: none, a bare array, an object with key items
\* with or without a template name
StoreFiles ==
    {[exists |-> FALSE, data |-> <<>>]}
    \cup {[exists |-> TRUE, data |-> json_dump(its)] : its \in SeqUpTo(StorePool, MaxItems)}
    \cup {[exists |-> TRUE, data |-> [kind |-> "object", template |-> t, elements |-> json_dump(its).elements]] :
            its \in SeqUpTo(StorePool, MaxItems), t \in {"none", "default"}}

StoreSave ==
    /\ pc = "save_call"
    /\ store' = save_items_to_json(json_dump(items), store)
    /\ entry' = items
    /\ pc' = "load_call"
    /\ UNCHANGED <<items, idx, calls, warnings, exc, args, runs, numSegments, inp, out>>

StoreLoad ==
    /\ pc = "load_call"
    /\ LET loaded == load_items_from_json(store) IN
       /\ out' = loaded.data
       /\ exc' = loaded.raised
       /\ pc' = IF loaded.raised = "none" THEN "load_return" ELSE "load_raised"
    /\ UNCHANGED <<items, idx, store, calls, warnings, entry, args, runs, numSegments, inp>>

StoreInit ==
    /\ \/ /\ pc = "save_call"
          /\ items \in SeqUpTo(StorePool, MaxItems)
          /\ store \in {[exists |-> FALSE, data |-> <<>>],
                        [exists |-> TRUE, data |-> json_dump(<<>>)]}
          /\ args = [NoArgs EXCEPT !.fn = "save_items_to_json"]
       \/ /\ pc = "load_call"
          /\ items = <<>>
          /\ store \in StoreFiles
          /\ args = [NoArgs EXCEPT !.fn = "load_items_from_json"]
    /\ entry = items
    /\ inp = NoValue
    /\ out = NoValue
    /\ idx = 1
    /\ calls = {}
    /\ warnings = <<>>
    /\ exc = "none"
    /\ runs = 0
    /\ numSegments = 1

StoreNext ==
    \/ StoreSave
    \/ StoreLoad

StoreSpec == StoreInit /\ [][StoreNext]_vars

-----------------------------------------------------------------------------
(* Properties of the item store *)

\* The load at hand reads what save_items_to_json just wrote
RoundTrip == args.fn = "save_items_to_json" /\ pc \in {"load_return", "load_raised"}

\* C18: load_items_from_json after save_items_to_json on the same path does
\* not raise and returns a list of the same length whose items, in the same
\* order, have the same fields with the same values and types.
C18_ArrayRoundTrip ==
    RoundTrip =>
        /\ exc = "none"
        /\ Len(out) = Len(entry)
        /\ \A i \in 1..Len(entry) :
              /\ DOMAIN out[i] = DOMAIN entry[i]
              /\ \A k \in DOMAIN entry[i] : out[i][k] = entry[i][k]

C18_Witness ==
    /\ RoundTrip
    /\ Len(entry) = 2
    /\ entry[1] # entry[2]
    /\ "duration" \in DOMAIN entry[1] /\ entry[1].duration = PyFloat(3)
    /\ "_split_index" \in DOMAIN entry[2] /\ entry[2]["_split_index"] = PyNone
    /\ out = entry

\* The file the load at hand read is an object with key items
WrapperLoaded ==
    /\ args.fn = "load_items_from_json"
    /\ pc \in {"load_return", "load_raised"}
    /\ store.exists
    /\ store.data.kind = "object"

-----------------------------------------------------------------------------
(* utils.load_input_config.  Here inp is the JSON value of the run-input   *)
(* file and out the config dict returned.                                  *)

\* data.get('style', '插画')
DefaultStyle == 1

\* required_fields
RequiredFields ==
    {"video_size", "iamges", "voice", "font", "font_color", "font_size", "name", "text"}

\* images_count = data.get('iamges') or data.get('images', 0)
ImagesCount(data) ==
    IF Truthy(Get(data, "iamges")) THEN data.iamges ELSE Get(data, "images")

load_input_config(data) ==
    IF ~IsDict(data)
    THEN [raised |-> "ValueError", config |-> EmptyDict]
    ELSE IF RequiredFields \ DOMAIN data # {}
    THEN [raised |-> "ValueError", config |-> EmptyDict]
    ELSE [raised |-> "none",
          config |-> [video_size |-> data.video_size, images |-> ImagesCount(data),
                      voice |-> data.voice, font |-> data.font,
                      font_color |-> data.font_color, font_size |-> data.font_size,
                      name |-> data.name, text |-> data.text,
                      style |-> IF "style" \in DOMAIN data THEN data.style ELSE DefaultStyle]]

\* The required keys other than the segment count
OtherRequired == RequiredFields \ {"iamges"}

\* Run-input values: objects with any of the other required keys, either,
\* both or none of the two spellings of the count, with or without a style;
\* and a value that is not an object
ConfigInputs ==
    {[k \in K |-> OldValue] @@ a @@ b @@ st :
        K \in SUBSET OtherRequired,
        a \in {Absent, [iamges |-> 0], [iamges |-> 2]},
        b \in {Absent, [images |-> 0], [images |-> 3]},
        st \in {Absent, [style |-> 2]}}
    \cup {NonObject}

LoadConfig ==
    /\ pc = "config_call"
    /\ LET loaded == load_input_config(inp) IN
       /\ out' = loaded.config
       /\ exc' = loaded.raised
       /\ pc' = IF loaded.raised = "none" THEN "config_return" ELSE "config_raised"
    /\ UNCHANGED <<items, idx, store, calls, warnings, entry, args, runs, numSegments, inp>>

ConfigInit ==
    /\ pc = "config_call"
    /\ inp \in ConfigInputs
    /\ out = NoValue
    /\ items = <<>>
    /\ idx = 1
    /\ store = [exists |-> FALSE, data |-> <<>>]
    /\ calls = {}
    /\ warnings = <<>>
    /\ entry = <<>>
    /\ exc = "none"
    /\ args = [NoArgs EXCEPT !.fn = "load_input_config"]
    /\ runs = 0
    /\ numSegments = 1

ConfigNext == LoadConfig

ConfigSpec == ConfigInit /\ [][ConfigNext]_vars

\* C20: a run-input object that has every other required key and exactly one
\* of the keys images and iamges loads without raising, and the config's
\* images is the value of that key.
C20_EitherSpellingLoads ==
    (/\ pc \in {"config_return", "config_raised"}
     /\ IsDict(inp)
     /\ OtherRequired \subseteq DOMAIN inp) =>
        /\ ("images" \in DOMAIN inp /\ "iamges" \notin DOMAIN inp) =>
              exc = "none" /\ out.images = inp.images
        /\ ("iamges" \in DOMAIN inp /\ "images" \notin DOMAIN inp) =>
              exc = "none" /\ out.images = inp.iamges

-----------------------------------------------------------------------------
(* One run of python main.py <json_file_path> from the command line:       *)
(* the __main__ block, Config.validate, load_input_config, create_temp_dir *)
(* and then the stages of main as above.  Here inp is what the process     *)
(* finds: argv, the non-empty keys of the environment, the JSON value of   *)
(* the run-input file and the item file left by earlier runs; out is what  *)
(* it leaves besides the item file: whether temp/<name> was created, what  *)
(* it reported and its exit status.                                        *)

ConfigKeys ==
    {"DEEPSEEK_API_KEY", "ARK_API_KEY", "DASHSCOPE_API_KEY", "AZURE_SPEECH_KEY",
     "AZURE_SPEECH_REGION"}

validate_Lenient(env) == {}

\* Config.validate: the list missing, env being the keys that are non-empty
validate(env) ==
    ({"DEEPSEEK_API_KEY", "ARK_API_KEY"} \ env)
    \cup (IF "DASHSCOPE_API_KEY" \notin env /\ "AZURE_SPEECH_KEY" \notin env
          THEN {"DASHSCOPE_API_KEY or AZURE_SPEECH_KEY"} ELSE {})
    \cup (IF "AZURE_SPEECH_KEY" \in env /\ "AZURE_SPEECH_REGION" \notin env
          THEN {"AZURE_SPEECH_REGION"} ELSE {})

\* A run-input object with every required key but the count, text being the
\* value of its text
RunInput(text) == [k \in OtherRequired |-> IF k = "text" THEN text ELSE OldValue]

\* if not Config.AZURE_SPEECH_KEY or not Config.AZURE_SPEECH_REGION: raise
\* ValueError; TRUE when text_to_speech gets past that test
text_to_speech_configured(env) ==
    "AZURE_SPEECH_KEY" \in env /\ "AZURE_SPEECH_REGION" \in env

\* The environments tried: every key set, one key missing, only the two
\* keys that are always required, and those two with the DashScope key
Environments ==
    {ConfigKeys, {"DEEPSEEK_API_KEY", "ARK_API_KEY"},
     {"DEEPSEEK_API_KEY", "ARK_API_KEY", "DASHSCOPE_API_KEY"}}
    \cup {ConfigKeys \ {k} : k \in {"DEEPSEEK_API_KEY", "ARK_API_KEY", "AZURE_SPEECH_REGION"}}

\* The text the items of the item file were made from is OldValue, another
\* text is 1; the count is 1 segment
RunInputs ==
    {RunInput(t) @@ [iamges |-> 1] : t \in {OldValue, 1}}
    \cup {RunInput(OldValue) @@ [images |-> 1],
          [k \in OtherRequired \ {"text"} |-> OldValue] @@ [iamges |-> 1],
          NonObject}

\* Item files of earlier runs: none, a cover alone, or a cover and a segment,
\* each with or without its Prompt and Image
StoredItems == {TitleSubtitle, TitleSubtitle @@ [Prompt |-> OldValue, Image |-> OldValue]}

ItemFiles ==
    {[exists |-> FALSE, data |-> <<>>], [exists |-> TRUE, data |-> <<TitleSubtitle>>]}
    \cup {[exists |-> TRUE, data |-> <<a, b>>] : a \in StoredItems, b \in StoredItems}

Running == [dir |-> FALSE, report |-> "none", status |-> "running"]

\* if __name__ == "__main__": usage or missing file end with sys.exit(1)
CliEntry ==
    /\ pc = "cli"
    /\ IF inp.argv = "none"
       THEN /\ out' = [out EXCEPT !.report = "usage", !.status = "1"]
            /\ pc' = "exited"
       ELSE IF inp.argv = "missing"
       THEN /\ out' = [out EXCEPT !.report = "missing_file", !.status = "1"]
            /\ pc' = "exited"
       ELSE /\ pc' = "validate"
            /\ UNCHANGED out
    /\ UNCHANGED <<items, idx, store, calls, warnings, entry, exc, args, runs, numSegments, inp>>

\* try: Config.validate()  except ValueError: print, return; main returning,
\* the process ends with status 0
MainValidate ==
    /\ pc = "validate"
    /\ IF validate(inp.env) # {}
       THEN /\ out' = [out EXCEPT !.report = "validate", !.status = "0"]
            /\ pc' = "exited"
       ELSE /\ pc' = "load_config"
            /\ UNCHANGED out
    /\ UNCHANGED <<items, idx, store, calls, warnings, entry, exc, args, runs, numSegments, inp>>

\* try: config = load_input_config(json_file_path)  except Exception: print, return
MainLoadConfig ==
    /\ pc = "load_config"
    /\ LET loaded == load_input_config(inp.data) IN
       IF loaded.raised # "none"
       THEN /\ out' = [out EXCEPT !.report = "load_input_config", !.status = "0"]
            /\ pc' = "exited"
            /\ UNCHANGED numSegments
       ELSE /\ numSegments' = loaded.config.images
            /\ pc' = "mkdir"
            /\ UNCHANGED out
    /\ UNCHANGED <<items, idx, store, calls, warnings, entry, exc, args, runs, inp>>

\* temp_dir = create_temp_dir(config['name']); prompt_gen = PromptGenerator()
MainCreateTempDir ==
    /\ pc = "mkdir"
    /\ out' = [out EXCEPT !.dir = TRUE]
    /\ pc' = "script"
    /\ UNCHANGED <<items, idx, store, calls, warnings, entry, exc, args, runs, numSegments, inp>>

\* An exception main does not catch ends the process with a traceback and
\* status 1
Traceback ==
    /\ pc = "raised"
    /\ out' = [out EXCEPT !.report = "traceback", !.status = "1"]
    /\ pc' = "exited"
    /\ UNCHANGED <<items, idx, store, calls, warnings, entry, exc, args, runs, numSegments, inp>>

CliInit ==
    /\ pc = "cli"
    /\ inp \in [argv : {"none", "missing", "file"}, env : Environments,
                data : RunInputs, stored : ItemFiles]
    /\ store = inp.stored
    /\ out = Running
    /\ items = <<>>
    /\ idx = 1
    /\ calls = {}
    /\ warnings = <<>>
    /\ entry = <<>>
    /\ exc = "none"
    /\ args = NoArgs
    /\ runs = 0
    /\ numSegments = 0

CliNext ==
    \/ CliEntry
    \/ MainValidate
    \/ MainLoadConfig
    \/ MainCreateTempDir
    \/ MainScript
    \/ PromptsCall
    \/ PromptItem
    \/ PromptsReturn
    \/ MainSavePrompts
    \/ ImagesCall
    \/ Traceback

CliSpec == CliInit /\ [][CliNext]_vars

-----------------------------------------------------------------------------
(* Properties of a run from the command line *)

\* A required credential is absent from the environment
CredentialsMissing ==
    \/ "DEEPSEEK_API_KEY" \notin inp.env
    \/ "ARK_API_KEY" \notin inp.env
    \/ "DASHSCOPE_API_KEY" \notin inp.env /\ "AZURE_SPEECH_KEY" \notin inp.env
    \/ "AZURE_SPEECH_KEY" \in inp.env /\ "AZURE_SPEECH_REGION" \notin inp.env

\* The run-input object lacks a field the loader requires
InputLacksField == IsDict(inp.data) /\ RequiredFields \ DOMAIN inp.data # {}

\* C21: in a run whose credentials are incomplete or whose run-input file
\* lacks a required field, no external call is ever made, temp/<name> is
\* never created and the item file is never written; the run never gets
\* past the two checks, and when it has ended it has reported that error.
C21_ConfigErrorsFatal ==
    (inp.argv = "file" /\ (CredentialsMissing \/ InputLacksField)) =>
        /\ calls = {}
        /\ ~out.dir
        /\ store = inp.stored
        /\ pc \in {"cli", "validate", "load_config", "exited"}
        /\ pc = "exited" => out.report \in {"validate", "load_input_config"}

C21_Witness ==
    /\ pc = "exited"
    /\ inp.argv = "file"
    /\ ~CredentialsMissing
    /\ InputLacksField
    /\ out.report = "load_input_config"
    /\ inp.stored.exists

\* C22: a process that ended because the input file is missing, because
\* Config.validate failed or because load_input_config failed has a non-zero
\* exit status; a failed per-item call leaves the stage loop running.
C22_FailuresExitNonZero ==
    /\ (/\ pc = "exited"
        /\ \/ inp.argv = "missing"
           \/ out.report \in {"validate", "load_input_config"}) => out.status # "0"
    /\ (pc = "prompts" /\ \E c \in calls : c.kind = "prompt" /\ ~c.ok) => exc = "none"

\* The run at hand found an item file with segment count + 1 items and is
\* past step 1/8
ResumedOnExpectedCount ==
    /\ pc \in {"prompts_call", "prompts", "prompts_return", "images_call", "raised"}
    /\ inp.stored.exists
    /\ Len(inp.stored.data) = numSegments + 1

\* C30: a run that finds an item file with segment count + 1 items makes no
\* script call and keeps every stored title, subtitle, non-empty Prompt and
\* non-empty Image, whether or not the text of the run input is the one the
\* file was made from.
C30_StalenessNotDetected ==
    ResumedOnExpectedCount =>
        /\ \A c \in calls : c.kind \notin {"cover", "script"}
        /\ Len(items) = Len(inp.stored.data)
        /\ \A i \in 1..Len(items) :
              \A k \in {"title", "subtitle", "Prompt", "Image"} :
                 Truthy(Get(inp.stored.data[i], k)) =>
                    Get(items[i], k) = inp.stored.data[i][k]

C30_Witness ==
    /\ ResumedOnExpectedCount
    /\ pc = "images_call"
    /\ inp.data.text # OldValue
    /\ Get(inp.stored.data[1], "Prompt") = OldValue
    /\ ~Truthy(Get(inp.stored.data[2], "Prompt"))
    /\ Get(items[1], "Prompt") = OldValue
    /\ Get(items[2], "Prompt") = FreshText

\* C32: in a run that has passed Config.validate, the test text_to_speech
\* makes of the speech credentials passes too.
C32_ValidatedSpeechConfigured ==
    (inp.argv = "file" /\ pc \notin {"cli", "validate"} /\ out.report # "validate") =>
        text_to_speech_configured(inp.env)

-----------------------------------------------------------------------------
(* templates.get_template *)

\* The names a template is asked for by; Template/<name>.json is absent,
\* present but not parsable, or present and parsable
TemplateNames == {"default", "news", "story"}

FileStates == {"absent", "broken", "ok"}

TemplateFallback_Never(template_name) == FALSE

\* if template_name != "default"
TemplateFallback(template_name) == template_name # "default"

\* One invocation of get_template: out.template_name is its argument, idx
\* counts the invocations get_template has made of itself
GetTemplate ==
    /\ pc = "get_template"
    /\ LET template_name == out.template_name
           file == inp.files[template_name] IN
       CASE file = "absent" /\ TemplateFallback(template_name) ->
               /\ warnings' = Append(warnings, Warning("template", 0))
               /\ out' = [out EXCEPT !.template_name = "default"]
               /\ idx' = idx + 1
               /\ UNCHANGED <<pc, exc>>
         [] file = "absent" /\ ~TemplateFallback(template_name) ->
               /\ exc' = "FileNotFoundError"
               /\ pc' = "template_raised"
               /\ UNCHANGED <<warnings, out, idx>>
         [] file = "ok" ->
               /\ out' = [out EXCEPT !.template = template_name]
               /\ pc' = "template_return"
               /\ UNCHANGED <<warnings, exc, idx>>
         [] file = "broken" /\ TemplateFallback(template_name) ->
               /\ out' = [out EXCEPT !.template_name = "default"]
               /\ idx' = idx + 1
               /\ UNCHANGED <<pc, exc, warnings>>
         [] file = "broken" /\ ~TemplateFallback(template_name) ->
               /\ exc' = "JSONDecodeError"
               /\ pc' = "template_raised"
               /\ UNCHANGED <<warnings, out, idx>>
    /\ UNCHANGED <<items, store, calls, entry, args, runs, numSegments, inp>>

TemplateInit ==
    /\ pc = "get_template"
    /\ inp \in [name : TemplateNames, files : [TemplateNames -> FileStates]]
    /\ out = [template_name |-> inp.name, template |-> "none"]
    /\ items = <<>>
    /\ idx = 0
    /\ store = [exists |-> FALSE, data |-> <<>>]
    /\ calls = {}
    /\ warnings = <<>>
    /\ entry = <<>>
    /\ exc = "none"
    /\ args = [NoArgs EXCEPT !.fn = "get_template"]
    /\ runs = 0
    /\ numSegments = 1

TemplateNext == GetTemplate

TemplateSpec == TemplateInit /\ [][TemplateNext]_vars

\* The named file cannot be used: it is absent or does not parse
Unusable(name) == inp.files[name] # "ok"

\* C23: get_template never invokes itself more than once; when it has ended,
\* a usable named file gives that template without a fallback, an unusable
\* file of a name other than default gives the default template after one
\* fallback if the default file is usable, and an unusable default file
\* (asked for directly or reached by fallback) gives a raised error.
C23_TemplateFallback ==
    /\ idx <= 1
    /\ pc \in {"template_return", "template_raised"} =>
          /\ ~Unusable(inp.name) =>
                pc = "template_return" /\ out.template = inp.name /\ idx = 0
          /\ (inp.name # "default" /\ Unusable(inp.name) /\ ~Unusable("default")) =>
                pc = "template_return" /\ out.template = "default" /\ idx = 1
          /\ (Unusable("default") /\ (inp.name = "default" \/ Unusable(inp.name))) =>
                pc = "template_raised" /\ exc # "none" /\ out.template = "none"

C23_Witness ==
    /\ pc = "template_return"
    /\ inp.name = "news"
    /\ inp.files["news"] = "broken"
    /\ out.template = "default"
    /\ idx = 1

-----------------------------------------------------------------------------
(* VideoGenerator.create_video: the visual layer of one slide *)

\* Image sides run over 1..MaxDim and target sides over 1..MaxTarget
MaxDim == 49
MaxTarget == 2

\* The significand of a Python float has 53 bits
MantissaBits == 53

RECURSIVE FloorLog2(_, _)
\* The exponent e with 2^e <= n/d < 2^(e+1), for positive n and d
FloorLog2(n, d) ==
    IF n >= 2 * d THEN FloorLog2(n, 2 * d) + 1
    ELSE IF n < d THEN FloorLog2(2 * n, d) - 1
    ELSE 0

RECURSIVE PowMod(_, _, _)
\* (t * 2^k) % w
PowMod(t, k, w) == IF k = 0 THEN t % w ELSE (2 * PowMod(t, k - 1, w)) % w

IsPowerOfTwo(n) == \E j \in 0..30 : n = 2^j

\* a * (t / w) evaluated in floats is below the integer N = a*t/w: the
\* quotient t/w is rounded to the nearest float q = (t*2^k - r) / (w*2^k),
\* and the product a*q = N - N*r/(t*2^k) is rounded to the nearest float; it
\* stays below N when it is more than half a float spacing under N.
RoundsBelow(N, t, w) ==
    LET e == FloorLog2(t, w)
        k == (MantissaBits - 1) - e
        r == PowMod(t, k, w)
        x == FloorLog2(N, 1) - e - (IF IsPowerOfTwo(N) THEN 2 ELSE 1)
    IN  /\ r > 0
        /\ 2 * r < w
        /\ IF x >= 0 THEN N * r > t * 2^x ELSE N * r * 2^(0 - x) > t

\* int(a * (t / w)) for positive integers a, t and w
int_product(a, t, w) ==
    LET N == (a * t) \div w IN
    IF (a * t) % w = 0 /\ N > 0 /\ RoundsBelow(N, t, w) THEN N - 1 ELSE N

Scale_Min(iw, ih, tw, th) ==
    IF tw * ih <= th * iw THEN [num |-> tw, den |-> iw] ELSE [num |-> th, den |-> ih]

\* scale = max(scale_w, scale_h), kept as the quotient it was computed from
Scale(iw, ih, tw, th) ==
    IF tw * ih >= th * iw THEN [num |-> tw, den |-> iw] ELSE [num |-> th, den |-> ih]

Size(w, h) == [w |-> w, h |-> h]

Min(a, b) == IF a <= b THEN a ELSE b

\* img_clip.cropped(x_center, y_center, width, height) when a side exceeds
\* the target: the centred window, clipped to the frame
cropped(size, target) ==
    IF size.w > target.w \/ size.h > target.h
    THEN Size(Min(size.w, target.w), Min(size.h, target.h))
    ELSE size

\* The last resize, made only when the sizes differ
defensive_resized(size, target) == IF size # target THEN target ELSE size

\* A frame with a side of zero pixels: what resizing to it or from it gives is
\* left to the imaging library
Degenerate(size) == size.w < 1 \/ size.h < 1

\* Lines 94-116 for an image of size inp.image and video_size inp.target
CoverLayer ==
    /\ pc = "cover_call"
    /\ LET iw == inp.image.w
           ih == inp.image.h
           tw == inp.target.w
           th == inp.target.h
           scale == Scale(iw, ih, tw, th)
           new_width == int_product(iw, scale.num, scale.den)
           new_height == int_product(ih, scale.num, scale.den)
           scaled == Size(new_width, new_height)
           crop == cropped(scaled, inp.target)
       IN  \E failing \in IF Degenerate(scaled) THEN {"resized", "defensive", "none"} ELSE {"none"} :
              /\ out' = [scaled |-> scaled,
                         cropped |-> IF failing = "resized" THEN Size(0, 0) ELSE crop,
                         final |-> IF failing = "none"
                                   THEN defensive_resized(crop, inp.target) ELSE Size(0, 0)]
              /\ exc' = IF failing = "none" THEN "none" ELSE "ValueError"
              /\ pc' = IF failing = "none" THEN "cover_return" ELSE "cover_raised"
    /\ UNCHANGED <<items, idx, store, calls, warnings, entry, args, runs, numSegments, inp>>

CoverInit ==
    /\ pc = "cover_call"
    /\ inp \in [image : {Size(w, h) : w \in 1..MaxDim, h \in 1..MaxDim},
                target : {Size(w, h) : w \in 1..MaxTarget, h \in 1..MaxTarget}]
    /\ out = NoValue
    /\ items = <<>>
    /\ idx = 1
    /\ store = [exists |-> FALSE, data |-> <<>>]
    /\ calls = {}
    /\ warnings = <<>>
    /\ entry = <<>>
    /\ exc = "none"
    /\ args = [NoArgs EXCEPT !.fn = "create_video"]
    /\ runs = 0
    /\ numSegments = 1

CoverNext == CoverLayer

CoverSpec == CoverInit /\ [][CoverNext]_vars

\* C24: for every image size and every target size, the visual layer is
\* built without an error and its width and height are the target's.
C24_CoverCropExact ==
    pc # "cover_call" => pc = "cover_return" /\ out.final = inp.target

\* The truncated products are those of exact arithmetic
ExactArithmetic ==
    LET scale == Scale(inp.image.w, inp.image.h, inp.target.w, inp.target.h) IN
    /\ out.scaled.w = (inp.image.w * scale.num) \div scale.den
    /\ out.scaled.h = (inp.image.h * scale.num) \div scale.den

\* C29: when the truncated products are those of exact arithmetic, the
\* scaled width is at least the target width, the scaled height at least the
\* target height, one of the two is equal to its target, and the size after
\* the centred crop is already the target size.
C29_FitToCover ==
    (pc # "cover_call" /\ ExactArithmetic) =>
        /\ out.scaled.w >= inp.target.w
        /\ out.scaled.h >= inp.target.h
        /\ out.scaled.w = inp.target.w \/ out.scaled.h = inp.target.h
        /\ pc = "cover_return"
        /\ out.cropped = inp.target

C29_Witness ==
    /\ pc = "cover_return"
    /\ ExactArithmetic
    /\ inp.image = Size(3, 5)
    /\ inp.target = Size(2, 1)
    /\ out.scaled = Size(2, 3)
    /\ out.cropped = Size(2, 1)

-----------------------------------------------------------------------------
(* VideoGenerator.create_video: the timeline and the media handles *)

MaxSlides == 2
MaxDuration == 2

\* A slide as create_video uses it: whether ImageClip and AudioFileClip can
\* open its files, and its duration
VideoSlides ==
    [image_ok : BOOLEAN, audio_ok : BOOLEAN, duration : 1..MaxDuration]

Handle(kind, i) == [kind |-> kind, slide |-> i]

Composite_Untimed(i, slide) == [slide |-> i, duration |-> 0]

\* CompositeVideoClip of the layers of slide i, each layer given the slide's
\* duration by with_duration
Composite(i, slide) == [slide |-> i, duration |-> slide.duration]

RECURSIVE TotalDuration(_)
TotalDuration(clips) ==
    IF clips = <<>> THEN 0 ELSE Head(clips).duration + TotalDuration(Tail(clips))

\* concatenate_videoclips(clips_with_text, method="compose")
concatenate_videoclips(clips) ==
    [duration |-> TotalDuration(clips), order |-> [i \in 1..Len(clips) |-> clips[i].slide]]

\* final_clip.close() and clip.close() for each composite; a composite that
\* is closed releases the image and audio clips it was made from
ClosedAtEnd(clips) ==
    {Handle("final", 0)}
    \cup {Handle(kind, clips[i].slide) :
             kind \in {"composite", "image", "audio"}, i \in 1..Len(clips)}

\* Line 85
VideoCall ==
    /\ pc = "video_call"
    /\ out' = [clips_with_text |-> <<>>, open |-> {}, final |-> NoValue, files |-> <<>>]
    /\ idx' = 1
    /\ pc' = "video_slide"
    /\ UNCHANGED <<items, store, calls, warnings, entry, exc, args, runs, numSegments, inp>>

\* One round of the loop at lines 87-203
VideoSlide ==
    /\ pc = "video_slide"
    /\ LET slide == inp.slides[idx] IN
       IF ~slide.image_ok
       THEN /\ exc' = "OSError"
            /\ pc' = "video_raised"
            /\ UNCHANGED <<out, idx>>
       ELSE IF ~slide.audio_ok
       THEN /\ out' = [out EXCEPT !.open = @ \cup {Handle("image", idx)}]
            /\ exc' = "OSError"
            /\ pc' = "video_raised"
            /\ UNCHANGED idx
       ELSE /\ out' = [out EXCEPT
                         !.clips_with_text = Append(@, Composite(idx, slide)),
                         !.open = @ \cup {Handle("image", idx), Handle("audio", idx),
                                          Handle("composite", idx)}]
            /\ idx' = idx + 1
            /\ pc' = IF idx = Len(inp.slides) THEN "video_write" ELSE "video_slide"
            /\ UNCHANGED exc
    /\ UNCHANGED <<items, store, calls, warnings, entry, args, runs, numSegments, inp>>

\* Lines 205-217: concatenate, encode, close
VideoWrite ==
    /\ pc = "video_write"
    /\ LET final_clip == concatenate_videoclips(out.clips_with_text) IN
       IF inp.encode_ok
       THEN /\ out' = [out EXCEPT
                         !.final = final_clip,
                         !.files = Append(@, final_clip.duration),
                         !.open = (@ \cup {Handle("final", 0)})
                                     \ ClosedAtEnd(out.clips_with_text)]
            /\ pc' = "video_return"
            /\ UNCHANGED exc
       ELSE /\ out' = [out EXCEPT !.final = final_clip,
                                  !.open = @ \cup {Handle("final", 0)}]
            /\ exc' = "IOError"
            /\ pc' = "video_raised"
    /\ UNCHANGED <<items, idx, store, calls, warnings, entry, args, runs, numSegments, inp>>

VideoInit ==
    /\ pc = "video_call"
    /\ inp \in [slides : UNION {[1..n -> VideoSlides] : n \in 1..MaxSlides},
                encode_ok : BOOLEAN]
    /\ out = NoValue
    /\ items = <<>>
    /\ idx = 1
    /\ store = [exists |-> FALSE, data |-> <<>>]
    /\ calls = {}
    /\ warnings = <<>>
    /\ entry = <<>>
    /\ exc = "none"
    /\ args = [NoArgs EXCEPT !.fn = "create_video"]
    /\ runs = 0
    /\ numSegments = 1

VideoNext == VideoCall \/ VideoSlide \/ VideoWrite

VideoSpec == VideoInit /\ [][VideoNext]_vars

RECURSIVE SlideDurationSum(_)
SlideDurationSum(slides) ==
    IF slides = <<>> THEN 0 ELSE Head(slides).duration + SlideDurationSum(Tail(slides))

\* C25: while create_video loops, the timeline holds one composite for each
\* slide already handled; when it has returned, the timeline holds one
\* composite per slide, the i-th made from the i-th slide with that slide's
\* duration, the final clip lasts the sum of the slide durations, and one
\* file has been written, with that duration.
C25_TimelineMatchesSlides ==
    /\ pc = "video_slide" => Len(out.clips_with_text) = idx - 1
    /\ pc = "video_return" =>
          /\ Len(out.clips_with_text) = Len(inp.slides)
          /\ \A i \in 1..Len(inp.slides) :
                /\ out.clips_with_text[i].slide = i
                /\ out.clips_with_text[i].duration = inp.slides[i].duration
          /\ out.final.order = [i \in 1..Len(inp.slides) |-> i]
          /\ out.final.duration = SlideDurationSum(inp.slides)
          /\ out.files = <<SlideDurationSum(inp.slides)>>

C25_Witness ==
    /\ pc = "video_return"
    /\ Len(inp.slides) = 2
    /\ inp.slides[1].duration = 1
    /\ inp.slides[2].duration = 2
    /\ out.files = <<3>>

\* C26: when create_video has ended, by returning or by raising, no media
\* handle it opened is still open.
C26_HandlesClosed ==
    pc \in {"video_return", "video_raised"} => out.open = {}

-----------------------------------------------------------------------------
(* PromptGenerator.generate_video_script, called on its own *)

ScriptWarnings_None(content, num_segments) == <<>>

\* if len(content_items) != num_segments: print("[警告] ..."), reached only
\* when the reply parsed to a list
ScriptWarnings(content, num_segments) ==
    IF content.ok /\ content.isList /\ Len(content.value) # num_segments
    THEN <<Warning("script", Len(content.value))>>
    ELSE <<>>

GenerateScript ==
    /\ pc = "script_call"
    /\ out' = generate_video_script(inp.cover, inp.content)
    /\ warnings' = ScriptWarnings(inp.content, inp.num_segments)
    /\ calls' = {Call("cover", 0, inp.cover.ok),
                 Call("script", 0, inp.content.ok /\ inp.content.isList)}
    /\ pc' = "script_return"
    /\ UNCHANGED <<items, idx, store, entry, exc, args, runs, numSegments, inp>>

ScriptInit ==
    /\ pc = "script_call"
    /\ runs = 0
    /\ inp \in [cover : CoverReplies, content : ContentReplies,
                num_segments : 1..MaxSegments]
    /\ out = NoValue
    /\ items = <<>>
    /\ idx = 1
    /\ store = [exists |-> FALSE, data |-> <<>>]
    /\ calls = {}
    /\ warnings = <<>>
    /\ entry = <<>>
    /\ exc = "none"
    /\ args = [NoArgs EXCEPT !.fn = "generate_video_script", !.text = TRUE]
    /\ numSegments = inp.num_segments

ScriptNext == GenerateScript

ScriptSpec == ScriptInit /\ [][ScriptNext]_vars

\* The content reply parsed to an array whose length is not num_segments
CountMismatch ==
    /\ inp.content.ok
    /\ inp.content.isList
    /\ Len(inp.content.value) # inp.num_segments

\* C27: when the content reply is an array of m elements with m other than
\* num_segments, generate_video_script returns without raising, has printed
\* the count warning, and returns 1 + m items: a cover item with title and
\* subtitle first, then the m elements of the reply in the reply's order.
C27_CountMismatchAccepted ==
    (pc = "script_return" /\ CountMismatch) =>
        /\ exc = "none"
        /\ warnings = <<Warning("script", Len(inp.content.value))>>
        /\ Len(out) = 1 + Len(inp.content.value)
        /\ {"title", "subtitle"} \subseteq DOMAIN out[1]
        /\ \A i \in 1..Len(inp.content.value) : out[i + 1] = inp.content.value[i]

C27_Witness ==
    /\ pc = "script_return"
    /\ inp.num_segments = 2
    /\ inp.content.ok
    /\ inp.content.isList
    /\ Len(inp.content.value) = 3
    /\ Len(out) = 4
    /\ out[2] # out[3]
    /\ warnings # <<>>

\* The cover reply arrived and parsed to an object with title and subtitle
CoverParsed ==
    /\ inp.cover.ok
    /\ IsDict(inp.cover.value)
    /\ {"title", "subtitle"} \subseteq DOMAIN inp.cover.value

\* C36: generate_video_script returns without raising whatever the two
\* replies are; the list it returns is never empty; its first element is the
\* parsed cover object, or the default cover when the cover call or its
\* parsing failed; the elements after it are those of the content reply when
\* that reply parsed to an array, and there are none otherwise.
C36_ScriptNeverEmpty ==
    pc = "script_return" =>
        /\ exc = "none"
        /\ Len(out) >= 1
        /\ out[1] = IF CoverParsed THEN inp.cover.value ELSE DEFAULT_COVER
        /\ IF inp.content.ok /\ inp.content.isList
           THEN SubSeq(out, 2, Len(out)) = inp.content.value
           ELSE Len(out) = 1

C36_Witness ==
    /\ pc = "script_return"
    /\ ~inp.cover.ok
    /\ ~inp.content.ok
    /\ out = <<DEFAULT_COVER>>

-----------------------------------------------------------------------------
(* The image and audio stages invoked again and again on the items of one  *)
(* run, on the whole list (as main.py does) or on the one-element list of  *)
(* a single item (as the batch buttons of app.py do).  A list passed to a  *)
(* stage holds the item objects themselves, so what the stage writes into  *)
(* an element is written into the run's item.                              *)

\* generate_images_batch(its, output_dir) with oks[j] telling whether
\* generate_image succeeds for the j-th element
generate_images_batch(its, oks) ==
    [j \in 1..Len(its) |->
        IF ~ImageSkip(its[j]) /\ ~ImagePrereqMissing(its[j])
           /\ Truthy(generate_image(oks[j], ImagePath(j)))
        THEN Put(its[j], "Image", generate_image(oks[j], ImagePath(j)))
        ELSE its[j]]

\* generate_audio_for_items(its, template, audio_dir) with a dict template,
\* oks[j] telling whether every call made for the j-th element succeeds
generate_audio_for_items(its, oks) ==
    [j \in 1..Len(its) |->
        IF ~AudioSkip(its[j]) /\ ~AudioPrereqMissing(its[j]) /\ oks[j]
        THEN Put(its[j], "audio", AudioPath(j))
        ELSE its[j]]

\* The positions of the run's items a caller passes: all of them, or one
Selections(its) == {[j \in 1..Len(its) |-> j]} \cup {<<k>> : k \in 1..Len(its)}

\* The list a caller builds from the selected positions
SubList(its, sel) == [j \in 1..Len(sel) |-> its[sel[j]]]

\* The run's items after the stage has worked on the list built from sel
WrittenBack(its, sel, result) ==
    [i \in 1..Len(its) |->
        IF \E j \in 1..Len(sel) : sel[j] = i
        THEN result[CHOOSE j \in 1..Len(sel) : sel[j] = i]
        ELSE its[i]]

ImageStage ==
    /\ pc = "batch"
    /\ \E sel \in Selections(items) :
         \E oks \in [1..Len(sel) -> BOOLEAN] :
            items' = WrittenBack(items, sel, generate_images_batch(SubList(items, sel), oks))
    /\ args' = [NoArgs EXCEPT !.fn = "generate_images_batch"]
    /\ exc' = "none"
    /\ UNCHANGED <<pc, idx, store, calls, warnings, entry, runs, numSegments, inp, out>>

AudioStage ==
    /\ pc = "batch"
    /\ \E sel \in Selections(items) :
         \E oks \in [1..Len(sel) -> BOOLEAN] :
            items' = WrittenBack(items, sel, generate_audio_for_items(SubList(items, sel), oks))
    /\ args' = [NoArgs EXCEPT !.fn = "generate_audio_for_items"]
    /\ exc' = "none"
    /\ UNCHANGED <<pc, idx, store, calls, warnings, entry, runs, numSegments, inp, out>>

\* st.session_state of app.py: the step, whether config is set, the working
\* directory and the output file (0 for {} and for None); video_items is items
Session(step, config, temp_dir, output_file) ==
    [step |-> step, config |-> config, temp_dir |-> temp_dir, output_file |-> output_file]

\* if st.session_state.temp_dir: save_items_to_json(video_items, <temp_dir>/<name>.json)
SessionSave(its) ==
    IF Truthy(out.temp_dir) THEN save_items_to_json(its, store) ELSE store

\* calculate_audio_duration: the seconds of the file, 0.0 when it cannot be read
MeasuredDurations == {0, 2}

\* The page of step 3 as it is drawn in every run: an item whose audio file
\* is there and that has no duration gets the measured one, when it is > 0
Step3Render(its, measured) ==
    [i \in 1..Len(its) |->
        IF /\ IsDict(its[i])
           /\ Truthy(Get(its[i], "audio"))
           /\ ~Truthy(Get(its[i], "duration"))
           /\ measured[i] > 0
        THEN Put(its[i], "duration", measured[i])
        ELSE its[i]]

\* The batch image button of app.py: for the first item without Image it
\* calls generate_images_batch([item], image_dir, image_size=image_size),
\* which does not bind; the except of the button shows the error.  With no
\* such item the loop makes no call and the items are saved.  Either way the
\* page is drawn.
BatchImagesButton ==
    /\ out.step = 3
    /\ args' = [NoArgs EXCEPT !.fn = "generate_images_batch", !.kwargs = {"image_size"}]
    /\ LET raised == /\ \E i \in 1..Len(items) : ~ImageSkip(items[i])
                     /\ ~CallBinds(args'.kwargs, GenerateImagesBatchKeywords)
       IN  /\ exc' = IF raised THEN "TypeError" ELSE "none"
           /\ store' = IF raised THEN store ELSE SessionSave(items)
    /\ \E measured \in [1..Len(items) -> MeasuredDurations] :
           items' = Step3Render(items, measured)
    /\ UNCHANGED <<pc, idx, calls, warnings, entry, runs, numSegments, inp, out>>

\* The batch audio button of app.py: for the first item without audio it
\* calls generate_audio_for_items([item], config['voice'], audio_dir) with a
\* voice name, a str, as the template; the except of the button shows the
\* error.  With no such item the loop makes no call and the items are saved.
\* Either way the page is drawn.
BatchAudioButton ==
    /\ out.step = 3
    /\ args' = [NoArgs EXCEPT !.fn = "generate_audio_for_items", !.template = "str"]
    /\ LET raised == \E i \in 1..Len(items) : ~AudioSkip(items[i])
       IN  /\ exc' = IF raised THEN "AttributeError" ELSE "none"
           /\ store' = IF raised THEN store ELSE SessionSave(items)
    /\ \E measured \in [1..Len(items) -> MeasuredDurations] :
           items' = Step3Render(items, measured)
    /\ UNCHANGED <<pc, idx, calls, warnings, entry, runs, numSegments, inp, out>>

\* Items of a run after the prompt stage: with or without a Prompt, with or
\* without texts to speak, no image and no audio yet
BatchPool ==
    {TitleSubtitle @@ p @@ t :
        p \in {Absent, [Prompt |-> OldValue]},
        t \in {Absent, [TextTop |-> 1, TextBottom |-> 1]}}

BatchInit ==
    /\ pc = "batch"
    /\ items \in UNION {[1..n -> BatchPool] : n \in 1..MaxItems}
    /\ entry = items
    /\ idx = 1
    /\ store = [exists |-> FALSE, data |-> <<>>]
    /\ calls = {}
    /\ warnings = <<>>
    /\ exc = "none"
    /\ args = NoArgs
    /\ runs = 0
    /\ numSegments = 1
    /\ inp = NoValue
    /\ out = Session(3, 1, 1, 0)

BatchNext == ImageStage \/ AudioStage \/ BatchImagesButton \/ BatchAudioButton

BatchSpec == BatchInit /\ [][BatchNext]_vars

\* C31: whatever stage invocations have been made on the run's items, on the
\* whole list or on one-element lists, no two items have the same non-empty
\* Image path and no two items have the same non-empty audio path.
C31_PathsDistinct ==
    \A i \in 1..Len(items) : \A j \in 1..Len(items) :
        i # j =>
            /\ Truthy(Get(items[i], "Image")) =>
                  Get(items[i], "Image") # Get(items[j], "Image")
            /\ Truthy(Get(items[i], "audio")) =>
                  Get(items[i], "audio") # Get(items[j], "audio")

-----------------------------------------------------------------------------
(* app.py: the four steps of the page.  Every run of the script handles at   *)
(* most one button and draws the page of the step it ends in.                *)

\* The page of step 2 as it is drawn in every run: the three text widgets of
\* each item are written back, '' where the item had no such key
Step2Render(its) ==
    [i \in 1..Len(its) |->
        Put(Put(Put(its[i], "title", Get(its[i], "title")),
                "subtitle", Get(its[i], "subtitle")),
            "Prompt", Get(its[i], "Prompt"))]

\* generate_image_prompts on the fresh script: a prompt for each item that has
\* a title or a subtitle and whose call succeeded
ScriptPrompts(script, oks) ==
    [i \in 1..Len(script) |->
        IF PromptSkip(script[i]) \/ PromptPrereqMissing(script[i]) \/ ~oks[i]
        THEN script[i]
        ELSE Put(script[i], "Prompt", FreshText)]

\* The content replies of a page run: no array, or an array of one segment
PageContentReplies ==
    {Reply(FALSE, FALSE, <<>>)} \cup {Reply(TRUE, TRUE, <<e>>) : e \in ReplyElements}

AllReady_FilesOnly(its, onDisk) == onDisk

\* all_images_ready and all_audio_ready: every item has Image and audio set
\* and the files they name exist
AllReady(its, onDisk) ==
    /\ \A i \in 1..Len(its) :
           Truthy(Get(its[i], "Image")) /\ Truthy(Get(its[i], "audio"))
    /\ onDisk

\* Step 1, "next": a blank text or a blank project name only shows an error;
\* otherwise config is stored, the working directory made, and step 2 drawn
Step1Next ==
    /\ pc = "ui"
    /\ args' = NoArgs
    /\ out.step = 1
    /\ \E text \in BOOLEAN, name \in BOOLEAN :
           IF text /\ name
           THEN /\ out' = [out EXCEPT !.step = 2, !.config = 1, !.temp_dir = 1]
                /\ items' = Step2Render(items)
                /\ exc' = "none"
           ELSE /\ exc' = "none"
                /\ UNCHANGED <<out, items>>
    /\ UNCHANGED <<pc, idx, store, calls, warnings, entry, runs, numSegments, inp>>

\* Step 2 without items, "generate": generate_video_script, then
\* generate_image_prompts, which raises on a segment that is not an object;
\* only when nothing raised are the items stored and saved
Step2Generate ==
    /\ pc = "ui"
    /\ args' = NoArgs
    /\ out.step = 2
    /\ items = <<>>
    /\ \E constructed \in BOOLEAN, cover \in CoverReplies, content \in PageContentReplies :
           LET script == generate_video_script(cover, content)
           IN  \E oks \in [1..Len(script) -> BOOLEAN] :
                   IF ~constructed
                   THEN /\ exc' = "none"
                        /\ UNCHANGED <<items, store>>
                   ELSE IF \E i \in 1..Len(script) : ~IsDict(script[i])
                   THEN /\ exc' = "none"
                        /\ UNCHANGED <<items, store>>
                   ELSE /\ exc' = "none"
                        /\ store' = SessionSave(ScriptPrompts(script, oks))
                        /\ items' = Step2Render(ScriptPrompts(script, oks))
    /\ UNCHANGED <<pc, idx, calls, warnings, entry, runs, numSegments, inp, out>>

\* Step 2: the user clears or retypes the subtitle or the prompt of item i,
\* the two texts the handlers of step 3 read
Step2Edit ==
    /\ pc = "ui"
    /\ args' = NoArgs
    /\ out.step = 2
    /\ \E i \in 1..Len(items), k \in {"subtitle", "Prompt"}, v \in {0, FreshText} :
           items' = [items EXCEPT ![i] = Put(items[i], k, v)]
    /\ exc' = "none"
    /\ UNCHANGED <<pc, idx, store, calls, warnings, entry, runs, numSegments, inp, out>>

\* Step 2, "regenerate" of item i: a new title and subtitle where the reply
\* has them, and a new prompt; any failure leaves the item.  The widgets are
\* then written back, showing the new texts or still the typed ones.
Step2Regenerate ==
    /\ pc = "ui"
    /\ args' = NoArgs
    /\ out.step = 2
    /\ \E i \in 1..Len(items), reply \in CoverReplies, ok \in BOOLEAN, kept \in BOOLEAN :
           IF reply.ok /\ IsDict(reply.value) /\ ok
           THEN /\ exc' = "none"
                /\ items' =
                     IF kept THEN items
                     ELSE [items EXCEPT ![i] =
                             Put(Put(Put(items[i],
                                 "title", IF "title" \in DOMAIN reply.value
                                          THEN reply.value.title ELSE Get(items[i], "title")),
                                 "subtitle", IF "subtitle" \in DOMAIN reply.value
                                             THEN reply.value.subtitle
                                             ELSE Get(items[i], "subtitle")),
                                 "Prompt", FreshText)]
           ELSE /\ exc' = "none"
                /\ UNCHANGED items
    /\ UNCHANGED <<pc, idx, store, calls, warnings, entry, runs, numSegments, inp, out>>

\* Step 2, "save"
Step2Save ==
    /\ pc = "ui"
    /\ args' = NoArgs
    /\ out.step = 2
    /\ items # <<>>
    /\ store' = SessionSave(items)
    /\ exc' = "none"
    /\ UNCHANGED <<pc, items, idx, calls, warnings, entry, runs, numSegments, inp, out>>

\* Step 2, "back" and "next": both buttons are drawn only when there are items
Step2Back ==
    /\ pc = "ui"
    /\ args' = NoArgs
    /\ out.step = 2
    /\ items # <<>>
    /\ out' = [out EXCEPT !.step = 1]
    /\ exc' = "none"
    /\ UNCHANGED <<pc, items, idx, store, calls, warnings, entry, runs, numSegments, inp>>

Step2Next ==
    /\ pc = "ui"
    /\ args' = NoArgs
    /\ out.step = 2
    /\ items # <<>>
    /\ out' = [out EXCEPT !.step = 3]
    /\ \E measured \in [1..Len(items) -> MeasuredDurations] :
           items' = Step3Render(items, measured)
    /\ exc' = "none"
    /\ UNCHANGED <<pc, idx, store, calls, warnings, entry, runs, numSegments, inp>>

\* Step 3: a file is uploaded for item i; the items are not saved
UploadImage ==
    /\ pc = "ui"
    /\ args' = NoArgs
    /\ out.step = 3
    /\ \E i \in 1..Len(items), measured \in [1..Len(items) -> MeasuredDurations] :
           items' = Step3Render([items EXCEPT ![i] = Put(items[i], "Image", ImagePath(i))],
                                measured)
    /\ exc' = "none"
    /\ UNCHANGED <<pc, idx, store, calls, warnings, entry, runs, numSegments, inp, out>>

\* Step 3, "regenerate image" of item i: needs a Prompt; Image is set and the
\* items are saved only when generate_image returned a path
RegenerateImage ==
    /\ pc = "ui"
    /\ args' = NoArgs
    /\ out.step = 3
    /\ \E i \in 1..Len(items), ok \in BOOLEAN,
          measured \in [1..Len(items) -> MeasuredDurations] :
           IF ImagePrereqMissing(items[i])
           THEN /\ exc' = "none"
                /\ items' = Step3Render(items, measured)
                /\ UNCHANGED store
           ELSE IF ~ok
           THEN /\ exc' = "none"
                /\ items' = Step3Render(items, measured)
                /\ UNCHANGED store
           ELSE LET set == [items EXCEPT ![i] = Put(items[i], "Image", ImagePath(i))]
                IN  /\ exc' = "none"
                    /\ store' = SessionSave(set)
                    /\ items' = Step3Render(set, measured)
    /\ UNCHANGED <<pc, idx, calls, warnings, entry, runs, numSegments, inp, out>>

\* Step 3, "regenerate audio" of item i: needs a subtitle; audio is set after
\* text_to_speech returned, duration when the measured one is > 0, then saved
RegenerateAudio ==
    /\ pc = "ui"
    /\ args' = NoArgs
    /\ out.step = 3
    /\ \E i \in 1..Len(items), ok \in BOOLEAN, duration \in MeasuredDurations,
          measured \in [1..Len(items) -> MeasuredDurations] :
           IF ~Truthy(Get(items[i], "subtitle"))
           THEN /\ exc' = "none"
                /\ items' = Step3Render(items, measured)
                /\ UNCHANGED store
           ELSE IF ~ok
           THEN /\ exc' = "none"
                /\ items' = Step3Render(items, measured)
                /\ UNCHANGED store
           ELSE LET voiced == Put(items[i], "audio", AudioPath(i))
                    set == [items EXCEPT ![i] =
                               IF duration > 0 THEN Put(voiced, "duration", duration)
                               ELSE voiced]
                IN  /\ exc' = "none"
                    /\ store' = SessionSave(set)
                    /\ items' = Step3Render(set, measured)
    /\ UNCHANGED <<pc, idx, calls, warnings, entry, runs, numSegments, inp, out>>

Step3Back ==
    /\ pc = "ui"
    /\ args' = NoArgs
    /\ out.step = 3
    /\ out' = [out EXCEPT !.step = 2]
    /\ items' = Step2Render(items)
    /\ exc' = "none"
    /\ UNCHANGED <<pc, idx, store, calls, warnings, entry, runs, numSegments, inp>>

\* Step 3, "next": disabled unless all_images_ready and all_audio_ready
Step3Next ==
    /\ pc = "ui"
    /\ args' = NoArgs
    /\ out.step = 3
    /\ \E onDisk \in BOOLEAN : AllReady(items, onDisk)
    /\ out' = [out EXCEPT !.step = 4]
    /\ exc' = "none"
    /\ UNCHANGED <<pc, items, idx, store, calls, warnings, entry, runs, numSegments, inp>>

\* Step 4, "back": the button under the list of missing files, or the one at
\* the foot of the page
Step4Back ==
    /\ pc = "ui"
    /\ args' = NoArgs
    /\ out.step = 4
    /\ out' = [out EXCEPT !.step = 3]
    /\ \E measured \in [1..Len(items) -> MeasuredDurations] :
           items' = Step3Render(items, measured)
    /\ exc' = "none"
    /\ UNCHANGED <<pc, idx, store, calls, warnings, entry, runs, numSegments, inp>>

\* Step 4, "generate video": every missing duration is filled in, then the
\* slides are built and create_video runs; only when it returned is the
\* output file recorded and the items saved
GenerateVideo ==
    /\ pc = "ui"
    /\ args' = NoArgs
    /\ out.step = 4
    /\ AllReady(items, TRUE)
    /\ \E ok \in BOOLEAN, measured \in [1..Len(items) -> MeasuredDurations] :
           LET timed == [i \in 1..Len(items) |->
                            IF Truthy(Get(items[i], "duration")) THEN items[i]
                            ELSE IF Truthy(Get(items[i], "audio")) /\ measured[i] > 0
                            THEN Put(items[i], "duration", measured[i])
                            ELSE Put(items[i], "duration", DefaultDuration)]
           IN  /\ items' = timed
               /\ IF ok
                  THEN /\ out' = [out EXCEPT !.output_file = 1]
                       /\ store' = SessionSave(timed)
                       /\ exc' = "none"
                  ELSE /\ exc' = "none"
                       /\ UNCHANGED <<out, store>>
    /\ UNCHANGED <<pc, idx, calls, warnings, entry, runs, numSegments, inp>>

\* Step 4, "regenerate video": the output file is forgotten and removed
RegenerateVideo ==
    /\ pc = "ui"
    /\ args' = NoArgs
    /\ out.step = 4
    /\ AllReady(items, TRUE)
    /\ Truthy(out.output_file)
    /\ out' = [out EXCEPT !.output_file = 0]
    /\ exc' = "none"
    /\ UNCHANGED <<pc, items, idx, store, calls, warnings, entry, runs, numSegments, inp>>

\* Step 4, "restart"
Restart ==
    /\ pc = "ui"
    /\ args' = NoArgs
    /\ out.step = 4
    /\ AllReady(items, TRUE)
    /\ out' = Session(1, 0, 0, 0)
    /\ items' = <<>>
    /\ exc' = "none"
    /\ UNCHANGED <<pc, idx, store, calls, warnings, entry, runs, numSegments, inp>>

\* The session state of a new browser session
UiInit ==
    /\ pc = "ui"
    /\ out = Session(1, 0, 0, 0)
    /\ items = <<>>
    /\ entry = <<>>
    /\ idx = 1
    /\ store = [exists |-> FALSE, data |-> <<>>]
    /\ calls = {}
    /\ warnings = <<>>
    /\ exc = "none"
    /\ args = NoArgs
    /\ runs = 0
    /\ numSegments = 1
    /\ inp = NoValue

UiNext ==
    \/ Step1Next
    \/ Step2Generate
    \/ Step2Edit
    \/ Step2Regenerate
    \/ Step2Save
    \/ Step2Back
    \/ Step2Next
    \/ BatchImagesButton
    \/ BatchAudioButton
    \/ UploadImage
    \/ RegenerateImage
    \/ RegenerateAudio
    \/ Step3Back
    \/ Step3Next
    \/ Step4Back
    \/ GenerateVideo
    \/ RegenerateVideo
    \/ Restart

UiSpec == UiInit /\ [][UiNext]_vars

SessionCleared ==
    /\ out.config = 0
    /\ items = <<>>
    /\ out.temp_dir = 0
    /\ out.output_file = 0

\* C34: over any sequence of button actions the step is one of 1..4; at step
\* 3 or 4 there is at least one item; step 4 is entered only from step 3 and
\* only when every item has Image and audio set; and a step from step 4 to
\* step 1 (restart) leaves config, items, working directory and output file
\* all cleared.
C34_StepMachine ==
    /\ [](/\ out.step \in 1..4
          /\ out.step \in {3, 4} => items # <<>>)
    /\ [][/\ (out'.step = 4 /\ out.step # 4) =>
                 /\ out.step = 3
                 /\ \A i \in 1..Len(items) :
                        Truthy(Get(items[i], "Image")) /\ Truthy(Get(items[i], "audio"))
          /\ (out.step = 4 /\ out'.step = 1) => SessionCleared']_vars

\* A session that was restarted from step 4 after its items had been saved
C34_Witness ==
    /\ out.step = 1
    /\ SessionCleared
    /\ store.exists

====
